---- MODULE Spec2Model ----
(***************************************************************************)
(* libdragon-bindings: the wrapper layer of src/lib.rs over the native     *)
(* functions declared in src/bindings.rs, the inline helpers of            *)
(* bindings.rs (tick and timer arithmetic) and the entry point of          *)
(* src/main.rs.                                                            *)
(*                                                                         *)
(* A caller (either _start of main.rs or an arbitrary client of the crate) *)
(* calls one wrapper at a time.  A wrapper call is split where control     *)
(* leaves the crate: the wrapper converts its arguments and invokes the    *)
(* native function (Call), the native function returns a value             *)
(* (NativeReturn, environment), the wrapper maps the value onto its result *)
(* and returns or panics (Finish).                                         *)
(***************************************************************************)
EXTENDS Integers, Sequences, FiniteSets, TLC

\* ---------------------------------------------------------------- bounds
\* opaque scalar and pointer arguments are drawn from 0..MaxArg
MaxArg == 0
\* caller strings have at most MaxStrLen bytes
MaxStrLen == 2
\* native functions return values in -MaxErr..MaxCode
MaxErr == 7
MaxCode == 8
MinCode == 0 - MaxErr
\* microsecond / tick arguments of the timer conversions are 0..MaxTimerArg
MaxTimerArg == 100
\* the upper 32 bits of a 64-bit native return value are 0..MaxHighWord
MaxHighWord == 1
\* the caller has MaxTimers TimerLink objects and the native library
\* allocates at most MaxTimers timers at a time
MaxTimers == 1

\* ------------------------------------------------------ machine integers
\* cty::c_int is a 32-bit two's-complement integer
I32Max == 2147483647
I32Min == (-2147483647) - 1
\* a u32 is held as <<high half, low half>>, each half in 0..HalfMax
HalfMod == 65536
HalfMax == HalfMod - 1
HalfSign == 32768

\* ---------------------------------------------------------------- enums
\* each enum is the set of <<variant, discriminant>> of its declaration; the
\* two enums that wrappers take as parameters are kept in declaration order,
\* and a value of such a parameter is the position of its variant
ControllerNum ==
    << <<"Controller1", 0>>, <<"Controller2", 1>>, <<"Controller3", 2>>, <<"Controller4", 3>> >>

RenderMode == << <<"RenderManual", 0>>, <<"RenderAutomatic", 1>> >>

AccessoryType == {<<"None", 0>>, <<"MemPak", 1>>, <<"RumblePak", 2>>, <<"VRU", 3>>}

EEPROMType == {<<"None", 0>>, <<"_4K", 1>>, <<"_16K", 2>>}

DPadDirection ==
    {<<"R", 0>>, <<"UR", 1>>, <<"U", 2>>, <<"UL", 3>>,
     <<"L", 4>>, <<"DL", 5>>, <<"D", 6>>, <<"DR", 7>>}

MemPakResult ==
    {<<"Success", 0>>, <<"OutOfRange", -1>>, <<"NoMemPak", -2>>, <<"InvalidMemPakData", -3>>}

DeleteEntryResult ==
    {<<"DeletedSuccessfully", 0>>, <<"InvalidEntry", -1>>, <<"BadMemPak", -2>>}

FormatResult == {<<"FormattedSuccessfully", 0>>, <<"BadMemPak", -2>>}

GetEntryResult == {<<"ReadSuccessfully", 0>>, <<"BadEntry", -1>>, <<"BadMemPak", -2>>}

ReadEntryDataResult ==
    {<<"ReadSuccessfully", 0>>, <<"BadEntry", -1>>, <<"BadMemPak", -2>>, <<"DataUnreadable", -3>>}

ReadSectorResult == {<<"ReadSuccessfully", 0>>, <<"BadSector", -1>>, <<"ErrorRead", -2>>}

ValidateResult == {<<"Valid", 0>>, <<"NotPresent", -2>>, <<"BadMemPak", -3>>}

WriteEntryDataResult ==
    {<<"WrittenSuccessfully", 0>>, <<"InvalidParameter", -1>>, <<"BadMemPak", -2>>,
     <<"WriteError", -3>>, <<"NotEnoughSpace", -4>>, <<"TOCFull", -5>>}

WriteSectorResult == {<<"WrittenSuccessfully", 0>>, <<"BadSector", -1>>, <<"WriteError", -2>>}

TPakError ==
    {<<"Success", 0>>, <<"InvalidArgument", -1>>, <<"NoTPak", -2>>, <<"NoController", -3>>,
     <<"UnknownBehaviour", -4>>, <<"NoCartridge", -5>>, <<"AddressOverflow", -6>>}

DFSResult ==
    {<<"Success", 0>>, <<"BadInput", -1>>, <<"NoFile", -2>>, <<"BadFS", -3>>,
     <<"NoMem", -4>>, <<"BadHandle", -5>>}

\* the enum declaration of a given name; the result unions of DragonFS
\* (Flag_Error, EOFResult, OpenResult, ReadResult, TellResult, SizeResult)
\* carry a DFSResult in their error field
EnumDecl(e) ==
    CASE e = "AccessoryType" -> AccessoryType
      [] e = "EEPROMType" -> EEPROMType
      [] e = "DPadDirection" -> DPadDirection
      [] e = "MemPakResult" -> MemPakResult
      [] e = "DeleteEntryResult" -> DeleteEntryResult
      [] e = "FormatResult" -> FormatResult
      [] e = "GetEntryResult" -> GetEntryResult
      [] e = "ReadEntryDataResult" -> ReadEntryDataResult
      [] e = "ReadSectorResult" -> ReadSectorResult
      [] e = "ValidateResult" -> ValidateResult
      [] e = "WriteEntryDataResult" -> WriteEntryDataResult
      [] e = "WriteSectorResult" -> WriteSectorResult
      [] e = "TPakError" -> TPakError
      [] e = "DFSResult" -> DFSResult
      [] OTHER -> DFSResult

\* `variant as i32`: the discriminant the declaration gives the variant
AsI32Enum(e, variant) == (CHOOSE p \in EnumDecl(e) : p[1] = variant)[2]

\* `controller as i32` / `mode as i32` for the k-th variant of a parameter enum
AsI32Param(decl, k) == decl[k][2]

\* `b as i32` for a bool (a bool is held as 0 for false, 1 for true)
AsI32Bool(b) == IF b = 0 THEN 0 ELSE 1

\* `c as c_char` for a u8: the same byte read as a signed 8-bit value
AsCChar(c) == IF c >= 128 THEN c - 256 ELSE c

\* ----------------------------------------------------------- argument values
\* the number of strings of at most MaxStrLen bytes over two byte values
RECURSIVE NumStrings(_)
NumStrings(len) == IF len = 0 THEN 1 ELSE 1 + 2 * NumStrings(len - 1)

\* a caller's &str is named by a number in StringIds
StringIds == 0..(NumStrings(MaxStrLen) - 1)

RECURSIVE BytesOf(_)
\* the bytes of a string: the binary digits of id + 1 below its leading 1, a
\* digit 0 being the NUL byte and a digit 1 the byte 97 ('a')
BytesOf(n) == IF n <= 1 THEN <<>> ELSE Append(BytesOf(n \div 2), IF n % 2 = 1 THEN 97 ELSE 0)

\* the bytes of the string named id (a &str may hold NUL bytes)
StrOf(id) == BytesOf(id + 1)

U8Values == {0, 97, 128, 255}

\* the caller's TimerLink objects are numbered 1..MaxTimers, and a
\* `&mut TimerLink` is the address of one: object k lives at address k
CallerTimers == 1..MaxTimers

\* the addresses at which the native library allocates its timers
HeapTimers == (MaxTimers + 1)..(2 * MaxTimers)

Opaque == 0..MaxArg

\* the values of a parameter of the given type
Dom(t) ==
    CASE t = "ControllerNum" -> 1..Len(ControllerNum)
      [] t = "RenderMode" -> 1..Len(RenderMode)
      [] t = "bool" -> {0, 1}
      [] t = "str" -> StringIds
      [] t = "u8" -> U8Values
      [] t = "TimerLink" -> 1..MaxTimers
      [] OTHER -> Opaque

RECURSIVE ArgTuples(_)
\* all argument lists of a parameter list
ArgTuples(params) ==
    IF params = <<>> THEN {<<>>}
    ELSE {<<v>> \o rest : v \in Dom(Head(params)), rest \in ArgTuples(Tail(params))}

\* Audio wrappers (lib.rs 55-125): native bound, parameter types, arguments passed, result mapping
AudioWrappers ==
    {
      [name |-> "Audio::init", native |-> "audio_init",
       params |-> <<"opaque", "opaque">>,
       passed |-> << <<1, "id">>, <<2, "id">> >>,
       ret |-> "void", enum |-> "",
       arms |-> {}, valLo |-> 1, valHi |-> 0],
      [name |-> "Audio::set_buffer_callback", native |-> "audio_set_buffer_callback",
       params |-> <<"opaque">>,
       passed |-> << <<1, "id">> >>,
       ret |-> "void", enum |-> "",
       arms |-> {}, valLo |-> 1, valHi |-> 0],
      [name |-> "Audio::pause", native |-> "audio_pause",
       params |-> <<"bool">>,
       passed |-> << <<1, "id">> >>,
       ret |-> "void", enum |-> "",
       arms |-> {}, valLo |-> 1, valHi |-> 0],
      [name |-> "Audio::write_buffer", native |-> "audio_write",
       params |-> <<"opaque">>,
       passed |-> << <<1, "ptr">> >>,
       ret |-> "void", enum |-> "",
       arms |-> {}, valLo |-> 1, valHi |-> 0],
      [name |-> "Audio::can_write", native |-> "audio_can_write",
       params |-> <<>>,
       passed |-> <<>>,
       ret |-> "value", enum |-> "",
       arms |-> {}, valLo |-> 1, valHi |-> 0],
      [name |-> "Audio::write_silence", native |-> "audio_write_silence",
       params |-> <<>>,
       passed |-> <<>>,
       ret |-> "void", enum |-> "",
       arms |-> {}, valLo |-> 1, valHi |-> 0],
      [name |-> "Audio::close", native |-> "audio_close",
       params |-> <<>>,
       passed |-> <<>>,
       ret |-> "void", enum |-> "",
       arms |-> {}, valLo |-> 1, valHi |-> 0],
      [name |-> "Audio::get_frequency", native |-> "audio_get_frequency",
       params |-> <<>>,
       passed |-> <<>>,
       ret |-> "value", enum |-> "",
       arms |-> {}, valLo |-> 1, valHi |-> 0],
      [name |-> "Audio::get_buffer_length", native |-> "audio_get_buffer_length",
       params |-> <<>>,
       passed |-> <<>>,
       ret |-> "value", enum |-> "",
       arms |-> {}, valLo |-> 1, valHi |-> 0] }

\* Console wrappers (lib.rs 161-192): native bound, parameter types, arguments passed, result mapping
ConsoleWrappers ==
    {
      [name |-> "Console::init", native |-> "console_init",
       params |-> <<>>,
       passed |-> <<>>,
       ret |-> "void", enum |-> "",
       arms |-> {}, valLo |-> 1, valHi |-> 0],
      [name |-> "Console::close", native |-> "console_close",
       params |-> <<>>,
       passed |-> <<>>,
       ret |-> "void", enum |-> "",
       arms |-> {}, valLo |-> 1, valHi |-> 0],
      [name |-> "Console::set_render_mode", native |-> "console_set_render_mode",
       params |-> <<"RenderMode">>,
       passed |-> << <<1, "mode_i32">> >>,
       ret |-> "void", enum |-> "",
       arms |-> {}, valLo |-> 1, valHi |-> 0],
      [name |-> "Console::clear", native |-> "console_clear",
       params |-> <<>>,
       passed |-> <<>>,
       ret |-> "void", enum |-> "",
       arms |-> {}, valLo |-> 1, valHi |-> 0],
      [name |-> "Console::render", native |-> "console_render",
       params |-> <<>>,
       passed |-> <<>>,
       ret |-> "void", enum |-> "",
       arms |-> {}, valLo |-> 1, valHi |-> 0] }

\* Controller wrappers (lib.rs 335-537): native bound, parameter types, arguments passed, result mapping
ControllerWrappers ==
    {
      [name |-> "Controller::init", native |-> "controller_init",
       params |-> <<>>,
       passed |-> <<>>,
       ret |-> "void", enum |-> "",
       arms |-> {}, valLo |-> 1, valHi |-> 0],
      [name |-> "Controller::read_controller_data", native |-> "controller_read",
       params |-> <<"opaque">>,
       passed |-> << <<1, "id">> >>,
       ret |-> "void", enum |-> "",
       arms |-> {}, valLo |-> 1, valHi |-> 0],
      [name |-> "Controller::read_gc_controller_data", native |-> "controller_read_gc",
       params |-> <<"opaque", "opaque">>,
       passed |-> << <<1, "id">>, <<2, "local_copy">> >>,
       ret |-> "void", enum |-> "",
       arms |-> {}, valLo |-> 1, valHi |-> 0],
      [name |-> "Controller::read_gc_origin_controller_data", native |-> "controller_read_gc_origin",
       params |-> <<"opaque">>,
       passed |-> << <<1, "id">> >>,
       ret |-> "void", enum |-> "",
       arms |-> {}, valLo |-> 1, valHi |-> 0],
      [name |-> "Controller::get_controllers_present", native |-> "get_controllers_present",
       params |-> <<>>,
       passed |-> <<>>,
       ret |-> "value", enum |-> "",
       arms |-> {}, valLo |-> 1, valHi |-> 0],
      [name |-> "Controller::get_accessories_present", native |-> "get_accessories_present",
       params |-> <<"opaque">>,
       passed |-> << <<1, "id">> >>,
       ret |-> "value", enum |-> "",
       arms |-> {}, valLo |-> 1, valHi |-> 0],
      [name |-> "Controller::scan_controllers", native |-> "controller_scan",
       params |-> <<>>,
       passed |-> <<>>,
       ret |-> "void", enum |-> "",
       arms |-> {}, valLo |-> 1, valHi |-> 0],
      [name |-> "Controller::get_keys_down", native |-> "get_keys_down",
       params |-> <<>>,
       passed |-> <<>>,
       ret |-> "value", enum |-> "",
       arms |-> {}, valLo |-> 1, valHi |-> 0],
      [name |-> "Controller::get_keys_up", native |-> "get_keys_up",
       params |-> <<>>,
       passed |-> <<>>,
       ret |-> "value", enum |-> "",
       arms |-> {}, valLo |-> 1, valHi |-> 0],
      [name |-> "Controller::get_keys_held", native |-> "get_keys_held",
       params |-> <<>>,
       passed |-> <<>>,
       ret |-> "value", enum |-> "",
       arms |-> {}, valLo |-> 1, valHi |-> 0],
      [name |-> "Controller::get_keys_pressed", native |-> "get_keys_pressed",
       params |-> <<>>,
       passed |-> <<>>,
       ret |-> "value", enum |-> "",
       arms |-> {}, valLo |-> 1, valHi |-> 0],
      [name |-> "Controller::get_dpad_direction", native |-> "get_dpad_direction",
       params |-> <<"ControllerNum">>,
       passed |-> << <<1, "enum_i32">> >>,
       ret |-> "enum", enum |-> "DPadDirection",
       arms |-> {<<0, "R">>, <<1, "UR">>, <<2, "U">>, <<3, "UL">>, <<4, "L">>, <<5, "DL">>, <<6, "D">>, <<7, "DR">>}, valLo |-> 1, valHi |-> 0],
      [name |-> "Controller::read_mempak_address", native |-> "read_mempak_address",
       params |-> <<"ControllerNum", "opaque", "opaque">>,
       passed |-> << <<1, "enum_i32">>, <<2, "id">>, <<3, "ptr">> >>,
       ret |-> "enum", enum |-> "MemPakResult",
       arms |-> {<<0, "Success">>, <<-1, "OutOfRange">>, <<-2, "NoMemPak">>, <<-3, "InvalidMemPakData">>}, valLo |-> 1, valHi |-> 0],
      [name |-> "Controller::write_mempak_address", native |-> "write_mempak_address",
       params |-> <<"ControllerNum", "opaque", "opaque">>,
       passed |-> << <<1, "enum_i32">>, <<2, "id">>, <<3, "ptr">> >>,
       ret |-> "enum", enum |-> "MemPakResult",
       arms |-> {<<0, "Success">>, <<-1, "OutOfRange">>, <<-2, "NoMemPak">>, <<-3, "InvalidMemPakData">>}, valLo |-> 1, valHi |-> 0],
      [name |-> "Controller::identify_accessory", native |-> "identify_accessory",
       params |-> <<"ControllerNum">>,
       passed |-> << <<1, "enum_i32">> >>,
       ret |-> "enum", enum |-> "AccessoryType",
       arms |-> {<<0, "None">>, <<1, "MemPak">>, <<2, "RumblePak">>, <<3, "VRU">>}, valLo |-> 1, valHi |-> 0],
      [name |-> "Controller::rumble_start", native |-> "rumble_start",
       params |-> <<"ControllerNum">>,
       passed |-> << <<1, "enum_i32">> >>,
       ret |-> "void", enum |-> "",
       arms |-> {}, valLo |-> 1, valHi |-> 0],
      [name |-> "Controller::rumble_stop", native |-> "rumble_stop",
       params |-> <<"ControllerNum">>,
       passed |-> << <<1, "enum_i32">> >>,
       ret |-> "void", enum |-> "",
       arms |-> {}, valLo |-> 1, valHi |-> 0],
      [name |-> "Controller::execute_raw_command", native |-> "execute_raw_command",
       params |-> <<"ControllerNum", "opaque", "opaque", "opaque", "opaque", "opaque">>,
       passed |-> << <<1, "enum_i32">>, <<2, "id">>, <<3, "id">>, <<4, "id">>, <<5, "ptr">>, <<6, "ptr">> >>,
       ret |-> "void", enum |-> "",
       arms |-> {}, valLo |-> 1, valHi |-> 0],
      [name |-> "Controller::eeprom_present", native |-> "eeprom_present",
       params |-> <<>>,
       passed |-> <<>>,
       ret |-> "enum", enum |-> "EEPROMType",
       arms |-> {<<0, "None">>, <<1, "_4K">>, <<2, "_16K">>}, valLo |-> 1, valHi |-> 0],
      [name |-> "Controller::eeprom_read", native |-> "eeprom_read",
       params |-> <<"opaque">>,
       passed |-> << <<1, "id">>, <<0, "local_buf">> >>,
       ret |-> "value", enum |-> "",
       arms |-> {}, valLo |-> 1, valHi |-> 0],
      [name |-> "Controller::eeprom_write", native |-> "eeprom_write",
       params |-> <<"opaque", "opaque">>,
       passed |-> << <<1, "id">>, <<2, "ptr">> >>,
       ret |-> "void", enum |-> "",
       arms |-> {}, valLo |-> 1, valHi |-> 0] }

\* MemoryPak wrappers (lib.rs 624-736): native bound, parameter types, arguments passed, result mapping
MemoryPakWrappers ==
    {
      [name |-> "MemoryPak::read_sector", native |-> "read_mempak_sector",
       params |-> <<"ControllerNum", "opaque", "opaque">>,
       passed |-> << <<1, "enum_i32">>, <<2, "id">>, <<3, "ptr">> >>,
       ret |-> "enum", enum |-> "ReadSectorResult",
       arms |-> {<<0, "ReadSuccessfully">>, <<-1, "BadSector">>, <<-2, "ErrorRead">>}, valLo |-> 1, valHi |-> 0],
      [name |-> "MemoryPak::write_sector", native |-> "write_mempak_sector",
       params |-> <<"ControllerNum", "opaque", "opaque">>,
       passed |-> << <<1, "enum_i32">>, <<2, "id">>, <<3, "ptr">> >>,
       ret |-> "enum", enum |-> "WriteSectorResult",
       arms |-> {<<0, "WrittenSuccessfully">>, <<-1, "BadSector">>, <<-2, "WriteError">>}, valLo |-> 1, valHi |-> 0],
      [name |-> "MemoryPak::validate_mempak", native |-> "validate_mempak",
       params |-> <<"ControllerNum">>,
       passed |-> << <<1, "enum_i32">> >>,
       ret |-> "enum", enum |-> "ValidateResult",
       arms |-> {<<0, "Valid">>, <<-2, "NotPresent">>, <<-3, "BadMemPak">>}, valLo |-> 1, valHi |-> 0],
      [name |-> "MemoryPak::get_free_space", native |-> "get_mempak_free_space",
       params |-> <<"ControllerNum">>,
       passed |-> << <<1, "enum_i32">> >>,
       ret |-> "value", enum |-> "",
       arms |-> {}, valLo |-> 1, valHi |-> 0],
      [name |-> "MemoryPak::get_entry", native |-> "get_mempak_entry",
       params |-> <<"ControllerNum", "opaque", "opaque">>,
       passed |-> << <<1, "enum_i32">>, <<2, "id">>, <<3, "id">> >>,
       ret |-> "enum", enum |-> "GetEntryResult",
       arms |-> {<<0, "ReadSuccessfully">>, <<-1, "BadEntry">>, <<-2, "BadMemPak">>}, valLo |-> 1, valHi |-> 0],
      [name |-> "MemoryPak::format_mempak", native |-> "format_mempak",
       params |-> <<"ControllerNum">>,
       passed |-> << <<1, "enum_i32">> >>,
       ret |-> "enum", enum |-> "FormatResult",
       arms |-> {<<0, "FormattedSuccessfully">>, <<-2, "BadMemPak">>}, valLo |-> 1, valHi |-> 0],
      [name |-> "MemoryPak::read_entry_data", native |-> "read_mempak_entry_data",
       params |-> <<"ControllerNum", "opaque", "opaque">>,
       passed |-> << <<1, "enum_i32">>, <<2, "id">>, <<3, "ptr">> >>,
       ret |-> "enum", enum |-> "ReadEntryDataResult",
       arms |-> {<<0, "ReadSuccessfully">>, <<-1, "BadEntry">>, <<-2, "BadMemPak">>, <<-3, "DataUnreadable">>}, valLo |-> 1, valHi |-> 0],
      [name |-> "MemoryPak::write_entry_data", native |-> "write_mempak_entry_data",
       params |-> <<"ControllerNum", "opaque", "opaque">>,
       passed |-> << <<1, "enum_i32">>, <<2, "id">>, <<3, "ptr">> >>,
       ret |-> "enum", enum |-> "WriteEntryDataResult",
       arms |-> {<<0, "WrittenSuccessfully">>, <<-1, "InvalidParameter">>, <<-2, "BadMemPak">>, <<-3, "WriteError">>, <<-4, "NotEnoughSpace">>, <<-5, "TOCFull">>}, valLo |-> 1, valHi |-> 0],
      [name |-> "MemoryPak::delete_entry", native |-> "delete_mempak_entry",
       params |-> <<"ControllerNum", "opaque">>,
       passed |-> << <<1, "enum_i32">>, <<2, "id">> >>,
       ret |-> "enum", enum |-> "DeleteEntryResult",
       arms |-> {<<0, "DeletedSuccessfully">>, <<-1, "InvalidEntry">>, <<-2, "BadMemPak">>}, valLo |-> 1, valHi |-> 0] }

\* TransferPak wrappers (lib.rs 830-987): native bound, parameter types, arguments passed, result mapping
TransferPakWrappers ==
    {
      [name |-> "TransferPak::init", native |-> "tpak_init",
       params |-> <<"ControllerNum">>,
       passed |-> << <<1, "enum_i32">> >>,
       ret |-> "enum", enum |-> "TPakError",
       arms |-> {<<0, "Success">>, <<-1, "InvalidArgument">>, <<-2, "NoTPak">>, <<-3, "NoController">>, <<-4, "UnknownBehaviour">>, <<-5, "NoCartridge">>, <<-6, "AddressOverflow">>}, valLo |-> 1, valHi |-> 0],
      [name |-> "TransferPak::set_value", native |-> "tpak_set_value",
       params |-> <<"ControllerNum", "opaque", "u8">>,
       passed |-> << <<1, "enum_i32">>, <<2, "id">>, <<3, "id">> >>,
       ret |-> "enum", enum |-> "TPakError",
       arms |-> {<<0, "Success">>, <<-1, "InvalidArgument">>, <<-2, "NoTPak">>, <<-3, "NoController">>, <<-4, "UnknownBehaviour">>, <<-5, "NoCartridge">>, <<-6, "AddressOverflow">>}, valLo |-> 1, valHi |-> 0],
      [name |-> "TransferPak::set_bank", native |-> "tpak_set_bank",
       params |-> <<"ControllerNum", "opaque">>,
       passed |-> << <<1, "enum_i32">>, <<2, "id">> >>,
       ret |-> "enum", enum |-> "TPakError",
       arms |-> {<<0, "Success">>, <<-1, "InvalidArgument">>, <<-2, "NoTPak">>, <<-3, "NoController">>, <<-4, "UnknownBehaviour">>, <<-5, "NoCartridge">>, <<-6, "AddressOverflow">>}, valLo |-> 1, valHi |-> 0],
      [name |-> "TransferPak::set_power", native |-> "tpak_set_power",
       params |-> <<"ControllerNum", "bool">>,
       passed |-> << <<1, "enum_i32">>, <<2, "id">> >>,
       ret |-> "enum", enum |-> "TPakError",
       arms |-> {<<0, "Success">>, <<-1, "InvalidArgument">>, <<-2, "NoTPak">>, <<-3, "NoController">>, <<-4, "UnknownBehaviour">>, <<-5, "NoCartridge">>, <<-6, "AddressOverflow">>}, valLo |-> 1, valHi |-> 0],
      [name |-> "TransferPak::set_access", native |-> "tpak_set_access",
       params |-> <<"ControllerNum", "bool">>,
       passed |-> << <<1, "enum_i32">>, <<2, "id">> >>,
       ret |-> "enum", enum |-> "TPakError",
       arms |-> {<<0, "Success">>, <<-1, "InvalidArgument">>, <<-2, "NoTPak">>, <<-3, "NoController">>, <<-4, "UnknownBehaviour">>, <<-5, "NoCartridge">>, <<-6, "AddressOverflow">>}, valLo |-> 1, valHi |-> 0],
      [name |-> "TransferPak::get_status", native |-> "tpak_get_status",
       params |-> <<"ControllerNum">>,
       passed |-> << <<1, "enum_i32">> >>,
       ret |-> "value", enum |-> "",
       arms |-> {}, valLo |-> 1, valHi |-> 0],
      [name |-> "TransferPak::get_cartridge_header", native |-> "tpak_get_cartridge_header",
       params |-> <<"ControllerNum", "opaque">>,
       passed |-> << <<1, "enum_i32">>, <<2, "id">> >>,
       ret |-> "enum", enum |-> "TPakError",
       arms |-> {<<0, "Success">>, <<-1, "InvalidArgument">>, <<-2, "NoTPak">>, <<-3, "NoController">>, <<-4, "UnknownBehaviour">>, <<-5, "NoCartridge">>, <<-6, "AddressOverflow">>}, valLo |-> 1, valHi |-> 0],
      [name |-> "TransferPak::check_header", native |-> "tpak_check_header",
       params |-> <<"opaque">>,
       passed |-> << <<1, "id">> >>,
       ret |-> "value", enum |-> "",
       arms |-> {}, valLo |-> 1, valHi |-> 0],
      [name |-> "TransferPak::write", native |-> "tpak_write",
       params |-> <<"ControllerNum", "opaque", "opaque", "opaque">>,
       passed |-> << <<1, "enum_i32">>, <<2, "id">>, <<3, "ptr">>, <<4, "id">> >>,
       ret |-> "enum", enum |-> "TPakError",
       arms |-> {<<0, "Success">>, <<-1, "InvalidArgument">>, <<-2, "NoTPak">>, <<-3, "NoController">>, <<-4, "UnknownBehaviour">>, <<-5, "NoCartridge">>, <<-6, "AddressOverflow">>}, valLo |-> 1, valHi |-> 0],
      [name |-> "TransferPak::read", native |-> "tpak_read",
       params |-> <<"ControllerNum", "opaque", "opaque", "opaque">>,
       passed |-> << <<1, "enum_i32">>, <<2, "id">>, <<3, "ptr">>, <<4, "id">> >>,
       ret |-> "enum", enum |-> "TPakError",
       arms |-> {<<0, "Success">>, <<-1, "InvalidArgument">>, <<-2, "NoTPak">>, <<-3, "NoController">>, <<-4, "UnknownBehaviour">>, <<-5, "NoCartridge">>, <<-6, "AddressOverflow">>}, valLo |-> 1, valHi |-> 0] }

\* Display wrappers (lib.rs 1030-1049): native bound, parameter types, arguments passed, result mapping
DisplayWrappers ==
    {
      [name |-> "Display::init", native |-> "display_init",
       params |-> <<"opaque", "opaque", "opaque", "opaque", "opaque">>,
       passed |-> << <<1, "id">>, <<2, "id">>, <<3, "id">>, <<4, "id">>, <<5, "id">> >>,
       ret |-> "void", enum |-> "",
       arms |-> {}, valLo |-> 1, valHi |-> 0],
      [name |-> "Display::lock", native |-> "display_lock",
       params |-> <<>>,
       passed |-> <<>>,
       ret |-> "value", enum |-> "",
       arms |-> {}, valLo |-> 1, valHi |-> 0],
      [name |-> "Display::show", native |-> "display_show",
       params |-> <<"opaque">>,
       passed |-> << <<1, "id">> >>,
       ret |-> "void", enum |-> "",
       arms |-> {}, valLo |-> 1, valHi |-> 0],
      [name |-> "Display::close", native |-> "display_close",
       params |-> <<>>,
       passed |-> <<>>,
       ret |-> "void", enum |-> "",
       arms |-> {}, valLo |-> 1, valHi |-> 0] }

\* DMA wrappers (lib.rs 1074-1100): native bound, parameter types, arguments passed, result mapping
DMAWrappers ==
    {
      [name |-> "DMA::write", native |-> "dma_write",
       params |-> <<"opaque", "opaque", "opaque">>,
       passed |-> << <<1, "ptr">>, <<2, "id">>, <<3, "id">> >>,
       ret |-> "void", enum |-> "",
       arms |-> {}, valLo |-> 1, valHi |-> 0],
      [name |-> "DMA::read", native |-> "dma_read",
       params |-> <<"opaque", "opaque", "opaque">>,
       passed |-> << <<1, "ptr">>, <<2, "id">>, <<3, "id">> >>,
       ret |-> "void", enum |-> "",
       arms |-> {}, valLo |-> 1, valHi |-> 0],
      [name |-> "DMA::get_busy", native |-> "dma_busy",
       params |-> <<>>,
       passed |-> <<>>,
       ret |-> "value", enum |-> "",
       arms |-> {}, valLo |-> 1, valHi |-> 0],
      [name |-> "DMA::io_read", native |-> "io_read",
       params |-> <<"opaque">>,
       passed |-> << <<1, "id">> >>,
       ret |-> "value", enum |-> "",
       arms |-> {}, valLo |-> 1, valHi |-> 0],
      [name |-> "DMA::io_write", native |-> "io_write",
       params |-> <<"opaque", "opaque">>,
       passed |-> << <<1, "id">>, <<2, "id">> >>,
       ret |-> "void", enum |-> "",
       arms |-> {}, valLo |-> 1, valHi |-> 0] }

\* DragonFS wrappers (lib.rs 1210-1396): native bound, parameter types, arguments passed, result mapping
DragonFSWrappers ==
    {
      [name |-> "DragonFS::init", native |-> "dfs_init",
       params |-> <<"opaque">>,
       passed |-> << <<1, "id">> >>,
       ret |-> "enum", enum |-> "DFSResult",
       arms |-> {<<0, "Success">>, <<-1, "BadInput">>, <<-2, "NoFile">>, <<-3, "BadFS">>, <<-4, "NoMem">>, <<-5, "BadHandle">>}, valLo |-> 1, valHi |-> 0],
      [name |-> "DragonFS::chdir", native |-> "dfs_chdir",
       params |-> <<"str">>,
       passed |-> << <<1, "cstr">> >>,
       ret |-> "enum", enum |-> "DFSResult",
       arms |-> {<<0, "Success">>, <<-1, "BadInput">>, <<-2, "NoFile">>, <<-3, "BadFS">>, <<-4, "NoMem">>, <<-5, "BadHandle">>}, valLo |-> 1, valHi |-> 0],
      [name |-> "DragonFS::dir_find_first", native |-> "dfs_dir_findfirst",
       params |-> <<"str", "opaque">>,
       passed |-> << <<1, "cstr">>, <<2, "ptr">> >>,
       ret |-> "union", enum |-> "Flag_Error",
       arms |-> {<<-1, "BadInput">>, <<-2, "NoFile">>, <<-3, "BadFS">>, <<-4, "NoMem">>, <<-5, "BadHandle">>}, valLo |-> 0, valHi |-> 3],
      [name |-> "DragonFS::dir_find_next", native |-> "dfs_dir_findnext",
       params |-> <<"opaque">>,
       passed |-> << <<1, "ptr">> >>,
       ret |-> "union", enum |-> "Flag_Error",
       arms |-> {<<-1, "BadInput">>, <<-2, "NoFile">>, <<-3, "BadFS">>, <<-4, "NoMem">>, <<-5, "BadHandle">>}, valLo |-> 0, valHi |-> 3],
      [name |-> "DragonFS::open", native |-> "dfs_open",
       params |-> <<"str">>,
       passed |-> << <<1, "cstr">> >>,
       ret |-> "union", enum |-> "OpenResult",
       arms |-> {<<-1, "BadInput">>, <<-2, "NoFile">>, <<-3, "BadFS">>, <<-4, "NoMem">>, <<-5, "BadHandle">>}, valLo |-> -5, valHi |-> I32Max],
      [name |-> "DragonFS::read", native |-> "dfs_read",
       params |-> <<"opaque", "opaque", "opaque", "opaque">>,
       passed |-> << <<1, "ptr">>, <<2, "id">>, <<3, "id">>, <<4, "id">> >>,
       ret |-> "union", enum |-> "ReadResult",
       arms |-> {<<-1, "BadInput">>, <<-2, "NoFile">>, <<-3, "BadFS">>, <<-4, "NoMem">>, <<-5, "BadHandle">>}, valLo |-> 0, valHi |-> I32Max],
      [name |-> "DragonFS::seek", native |-> "dfs_seek",
       params |-> <<"opaque", "opaque", "opaque">>,
       passed |-> << <<1, "id">>, <<2, "id">>, <<3, "id">> >>,
       ret |-> "enum", enum |-> "DFSResult",
       arms |-> {<<0, "Success">>, <<-1, "BadInput">>, <<-2, "NoFile">>, <<-3, "BadFS">>, <<-4, "NoMem">>, <<-5, "BadHandle">>}, valLo |-> 1, valHi |-> 0],
      [name |-> "DragonFS::tell", native |-> "dfs_tell",
       params |-> <<"opaque">>,
       passed |-> << <<1, "id">> >>,
       ret |-> "union", enum |-> "TellResult",
       arms |-> {<<-1, "BadInput">>, <<-2, "NoFile">>, <<-3, "BadFS">>, <<-4, "NoMem">>, <<-5, "BadHandle">>}, valLo |-> -5, valHi |-> I32Max],
      [name |-> "DragonFS::close", native |-> "dfs_close",
       params |-> <<"opaque">>,
       passed |-> << <<1, "id">> >>,
       ret |-> "enum", enum |-> "DFSResult",
       arms |-> {<<0, "Success">>, <<-1, "BadInput">>, <<-2, "NoFile">>, <<-3, "BadFS">>, <<-4, "NoMem">>, <<-5, "BadHandle">>}, valLo |-> 1, valHi |-> 0],
      [name |-> "DragonFS::eof", native |-> "dfs_eof",
       params |-> <<"opaque">>,
       passed |-> << <<1, "id">> >>,
       ret |-> "union", enum |-> "EOFResult",
       arms |-> {<<-1, "BadInput">>, <<-2, "NoFile">>, <<-3, "BadFS">>, <<-4, "NoMem">>, <<-5, "BadHandle">>}, valLo |-> 0, valHi |-> 1],
      [name |-> "DragonFS::size", native |-> "dfs_size",
       params |-> <<"opaque">>,
       passed |-> << <<1, "id">> >>,
       ret |-> "union", enum |-> "SizeResult",
       arms |-> {<<-1, "BadInput">>, <<-2, "NoFile">>, <<-3, "BadFS">>, <<-4, "NoMem">>, <<-5, "BadHandle">>}, valLo |-> -5, valHi |-> I32Max] }

\* GraphicsEngine wrappers (lib.rs 1450-1565): native bound, parameter types, arguments passed, result mapping
GraphicsEngineWrappers ==
    {
      [name |-> "GraphicsEngine::make_color", native |-> "graphics_make_color",
       params |-> <<"opaque", "opaque", "opaque", "opaque">>,
       passed |-> << <<1, "id">>, <<2, "id">>, <<3, "id">>, <<4, "id">> >>,
       ret |-> "value", enum |-> "",
       arms |-> {}, valLo |-> 1, valHi |-> 0],
      [name |-> "GraphicsEngine::convert_color", native |-> "graphics_convert_color",
       params |-> <<"opaque">>,
       passed |-> << <<1, "id">> >>,
       ret |-> "value", enum |-> "",
       arms |-> {}, valLo |-> 1, valHi |-> 0],
      [name |-> "GraphicsEngine::draw_pixel", native |-> "graphics_draw_pixel",
       params |-> <<"opaque", "opaque", "opaque", "opaque">>,
       passed |-> << <<1, "id">>, <<2, "id">>, <<3, "id">>, <<4, "id">> >>,
       ret |-> "void", enum |-> "",
       arms |-> {}, valLo |-> 1, valHi |-> 0],
      [name |-> "GraphicsEngine::draw_pixel_trans", native |-> "graphics_draw_pixel_trans",
       params |-> <<"opaque", "opaque", "opaque", "opaque">>,
       passed |-> << <<1, "id">>, <<2, "id">>, <<3, "id">>, <<4, "id">> >>,
       ret |-> "void", enum |-> "",
       arms |-> {}, valLo |-> 1, valHi |-> 0],
      [name |-> "GraphicsEngine::draw_line", native |-> "graphics_draw_line",
       params |-> <<"opaque", "opaque", "opaque", "opaque", "opaque", "opaque">>,
       passed |-> << <<1, "id">>, <<2, "id">>, <<3, "id">>, <<4, "id">>, <<5, "id">>, <<6, "id">> >>,
       ret |-> "void", enum |-> "",
       arms |-> {}, valLo |-> 1, valHi |-> 0],
      [name |-> "GraphicsEngine::draw_line_trans", native |-> "graphics_draw_line_trans",
       params |-> <<"opaque", "opaque", "opaque", "opaque", "opaque", "opaque">>,
       passed |-> << <<1, "id">>, <<2, "id">>, <<3, "id">>, <<4, "id">>, <<5, "id">>, <<6, "id">> >>,
       ret |-> "void", enum |-> "",
       arms |-> {}, valLo |-> 1, valHi |-> 0],
      [name |-> "GraphicsEngine::draw_box", native |-> "graphics_draw_box",
       params |-> <<"opaque", "opaque", "opaque", "opaque", "opaque", "opaque">>,
       passed |-> << <<1, "id">>, <<2, "id">>, <<3, "id">>, <<4, "id">>, <<5, "id">>, <<6, "id">> >>,
       ret |-> "void", enum |-> "",
       arms |-> {}, valLo |-> 1, valHi |-> 0],
      [name |-> "GraphicsEngine::draw_box_trans", native |-> "graphics_draw_box_trans",
       params |-> <<"opaque", "opaque", "opaque", "opaque", "opaque", "opaque">>,
       passed |-> << <<1, "id">>, <<2, "id">>, <<3, "id">>, <<4, "id">>, <<5, "id">>, <<6, "id">> >>,
       ret |-> "void", enum |-> "",
       arms |-> {}, valLo |-> 1, valHi |-> 0],
      [name |-> "GraphicsEngine::fill_screen", native |-> "graphics_fill_screen",
       params |-> <<"opaque", "opaque">>,
       passed |-> << <<1, "id">>, <<2, "id">> >>,
       ret |-> "void", enum |-> "",
       arms |-> {}, valLo |-> 1, valHi |-> 0],
      [name |-> "GraphicsEngine::set_color", native |-> "graphics_set_color",
       params |-> <<"opaque", "opaque">>,
       passed |-> << <<1, "id">>, <<2, "id">> >>,
       ret |-> "void", enum |-> "",
       arms |-> {}, valLo |-> 1, valHi |-> 0],
      [name |-> "GraphicsEngine::draw_character", native |-> "graphics_draw_character",
       params |-> <<"opaque", "opaque", "opaque", "u8">>,
       passed |-> << <<1, "id">>, <<2, "id">>, <<3, "id">>, <<4, "u8_c_char">> >>,
       ret |-> "void", enum |-> "",
       arms |-> {}, valLo |-> 1, valHi |-> 0],
      [name |-> "GraphicsEngine::draw_text", native |-> "graphics_draw_text",
       params |-> <<"opaque", "opaque", "opaque", "str">>,
       passed |-> << <<1, "id">>, <<2, "id">>, <<3, "id">>, <<4, "cstr">> >>,
       ret |-> "void", enum |-> "",
       arms |-> {}, valLo |-> 1, valHi |-> 0],
      [name |-> "GraphicsEngine::draw_sprite", native |-> "graphics_draw_sprite",
       params |-> <<"opaque", "opaque", "opaque", "opaque">>,
       passed |-> << <<1, "id">>, <<2, "id">>, <<3, "id">>, <<4, "id">> >>,
       ret |-> "void", enum |-> "",
       arms |-> {}, valLo |-> 1, valHi |-> 0],
      [name |-> "GraphicsEngine::draw_sprite_stride", native |-> "graphics_draw_sprite_stride",
       params |-> <<"opaque", "opaque", "opaque", "opaque", "opaque">>,
       passed |-> << <<1, "id">>, <<2, "id">>, <<3, "id">>, <<4, "id">>, <<5, "id">> >>,
       ret |-> "void", enum |-> "",
       arms |-> {}, valLo |-> 1, valHi |-> 0],
      [name |-> "GraphicsEngine::draw_sprite_trans", native |-> "graphics_draw_sprite_trans",
       params |-> <<"opaque", "opaque", "opaque", "opaque">>,
       passed |-> << <<1, "id">>, <<2, "id">>, <<3, "id">>, <<4, "id">> >>,
       ret |-> "void", enum |-> "",
       arms |-> {}, valLo |-> 1, valHi |-> 0],
      [name |-> "GraphicsEngine::draw_sprite_stride_trans", native |-> "graphics_draw_sprite_trans_stride",
       params |-> <<"opaque", "opaque", "opaque", "opaque", "opaque">>,
       passed |-> << <<1, "id">>, <<2, "id">>, <<3, "id">>, <<4, "id">>, <<5, "id">> >>,
       ret |-> "void", enum |-> "",
       arms |-> {}, valLo |-> 1, valHi |-> 0] }

\* Interrupt wrappers (lib.rs 1602-1726): native bound, parameter types, arguments passed, result mapping
InterruptWrappers ==
    {
      [name |-> "Interrupt::register_AI_handler", native |-> "register_AI_handler",
       params |-> <<"opaque">>,
       passed |-> << <<1, "id">> >>,
       ret |-> "void", enum |-> "",
       arms |-> {}, valLo |-> 1, valHi |-> 0],
      [name |-> "Interrupt::register_VI_handler", native |-> "register_VI_handler",
       params |-> <<"opaque">>,
       passed |-> << <<1, "id">> >>,
       ret |-> "void", enum |-> "",
       arms |-> {}, valLo |-> 1, valHi |-> 0],
      [name |-> "Interrupt::register_PI_handler", native |-> "register_PI_handler",
       params |-> <<"opaque">>,
       passed |-> << <<1, "id">> >>,
       ret |-> "void", enum |-> "",
       arms |-> {}, valLo |-> 1, valHi |-> 0],
      [name |-> "Interrupt::register_DP_handler", native |-> "register_DP_handler",
       params |-> <<"opaque">>,
       passed |-> << <<1, "id">> >>,
       ret |-> "void", enum |-> "",
       arms |-> {}, valLo |-> 1, valHi |-> 0],
      [name |-> "Interrupt::register_TI_handler", native |-> "register_TI_handler",
       params |-> <<"opaque">>,
       passed |-> << <<1, "id">> >>,
       ret |-> "void", enum |-> "",
       arms |-> {}, valLo |-> 1, valHi |-> 0],
      [name |-> "Interrupt::register_SI_handler", native |-> "register_SI_handler",
       params |-> <<"opaque">>,
       passed |-> << <<1, "id">> >>,
       ret |-> "void", enum |-> "",
       arms |-> {}, valLo |-> 1, valHi |-> 0],
      [name |-> "Interrupt::register_SP_handler", native |-> "register_SP_handler",
       params |-> <<"opaque">>,
       passed |-> << <<1, "id">> >>,
       ret |-> "void", enum |-> "",
       arms |-> {}, valLo |-> 1, valHi |-> 0],
      [name |-> "Interrupt::unregister_AI_handler", native |-> "unregister_AI_handler",
       params |-> <<"opaque">>,
       passed |-> << <<1, "id">> >>,
       ret |-> "void", enum |-> "",
       arms |-> {}, valLo |-> 1, valHi |-> 0],
      [name |-> "Interrupt::unregister_VI_handler", native |-> "unregister_VI_handler",
       params |-> <<"opaque">>,
       passed |-> << <<1, "id">> >>,
       ret |-> "void", enum |-> "",
       arms |-> {}, valLo |-> 1, valHi |-> 0],
      [name |-> "Interrupt::unregister_PI_handler", native |-> "unregister_PI_handler",
       params |-> <<"opaque">>,
       passed |-> << <<1, "id">> >>,
       ret |-> "void", enum |-> "",
       arms |-> {}, valLo |-> 1, valHi |-> 0],
      [name |-> "Interrupt::unregister_DP_handler", native |-> "unregister_DP_handler",
       params |-> <<"opaque">>,
       passed |-> << <<1, "id">> >>,
       ret |-> "void", enum |-> "",
       arms |-> {}, valLo |-> 1, valHi |-> 0],
      [name |-> "Interrupt::unregister_TI_handler", native |-> "unregister_TI_handler",
       params |-> <<"opaque">>,
       passed |-> << <<1, "id">> >>,
       ret |-> "void", enum |-> "",
       arms |-> {}, valLo |-> 1, valHi |-> 0],
      [name |-> "Interrupt::unregister_SI_handler", native |-> "unregister_SI_handler",
       params |-> <<"opaque">>,
       passed |-> << <<1, "id">> >>,
       ret |-> "void", enum |-> "",
       arms |-> {}, valLo |-> 1, valHi |-> 0],
      [name |-> "Interrupt::unregister_SP_handler", native |-> "unregister_SP_handler",
       params |-> <<"opaque">>,
       passed |-> << <<1, "id">> >>,
       ret |-> "void", enum |-> "",
       arms |-> {}, valLo |-> 1, valHi |-> 0],
      [name |-> "Interrupt::set_AI_interrupt", native |-> "set_AI_interrupt",
       params |-> <<"bool">>,
       passed |-> << <<1, "bool_i32">> >>,
       ret |-> "void", enum |-> "",
       arms |-> {}, valLo |-> 1, valHi |-> 0],
      [name |-> "Interrupt::set_VI_interrupt", native |-> "set_VI_interrupt",
       params |-> <<"bool", "opaque">>,
       passed |-> << <<1, "bool_i32">>, <<2, "id">> >>,
       ret |-> "void", enum |-> "",
       arms |-> {}, valLo |-> 1, valHi |-> 0],
      [name |-> "Interrupt::set_PI_interrupt", native |-> "set_PI_interrupt",
       params |-> <<"bool">>,
       passed |-> << <<1, "bool_i32">> >>,
       ret |-> "void", enum |-> "",
       arms |-> {}, valLo |-> 1, valHi |-> 0],
      [name |-> "Interrupt::set_DP_interrupt", native |-> "set_DP_interrupt",
       params |-> <<"bool">>,
       passed |-> << <<1, "bool_i32">> >>,
       ret |-> "void", enum |-> "",
       arms |-> {}, valLo |-> 1, valHi |-> 0],
      [name |-> "Interrupt::set_SI_interrupt", native |-> "set_SI_interrupt",
       params |-> <<"bool">>,
       passed |-> << <<1, "bool_i32">> >>,
       ret |-> "void", enum |-> "",
       arms |-> {}, valLo |-> 1, valHi |-> 0],
      [name |-> "Interrupt::set_SP_interrupt", native |-> "set_SP_interrupt",
       params |-> <<"bool">>,
       passed |-> << <<1, "bool_i32">> >>,
       ret |-> "void", enum |-> "",
       arms |-> {}, valLo |-> 1, valHi |-> 0],
      [name |-> "Interrupt::init", native |-> "init_interrupts",
       params |-> <<>>,
       passed |-> <<>>,
       ret |-> "void", enum |-> "",
       arms |-> {}, valLo |-> 1, valHi |-> 0],
      [name |-> "Interrupt::enable_interrupts", native |-> "enable_interrupts",
       params |-> <<>>,
       passed |-> <<>>,
       ret |-> "void", enum |-> "",
       arms |-> {}, valLo |-> 1, valHi |-> 0],
      [name |-> "Interrupt::disable_interrupts", native |-> "disable_interrupts",
       params |-> <<>>,
       passed |-> <<>>,
       ret |-> "void", enum |-> "",
       arms |-> {}, valLo |-> 1, valHi |-> 0],
      [name |-> "Interrupt::get_interrupts_state", native |-> "get_interrupts_state",
       params |-> <<>>,
       passed |-> <<>>,
       ret |-> "value", enum |-> "",
       arms |-> {}, valLo |-> 1, valHi |-> 0] }

\* N64System wrappers (lib.rs 1853-1937): native bound, parameter types, arguments passed, result mapping
N64SystemWrappers ==
    {
      [name |-> "N64System::get_boot_cic", native |-> "sys_get_boot_cic",
       params |-> <<>>,
       passed |-> <<>>,
       ret |-> "value", enum |-> "",
       arms |-> {}, valLo |-> 1, valHi |-> 0],
      [name |-> "N64System::set_boot_cic", native |-> "sys_set_boot_cic",
       params |-> <<"opaque">>,
       passed |-> << <<1, "id">> >>,
       ret |-> "void", enum |-> "",
       arms |-> {}, valLo |-> 1, valHi |-> 0],
      [name |-> "N64System::wait_ticks", native |-> "wait_ticks",
       params |-> <<"opaque">>,
       passed |-> << <<1, "id">> >>,
       ret |-> "void", enum |-> "",
       arms |-> {}, valLo |-> 1, valHi |-> 0],
      [name |-> "N64System::wait_ms", native |-> "wait_ms",
       params |-> <<"opaque">>,
       passed |-> << <<1, "id">> >>,
       ret |-> "void", enum |-> "",
       arms |-> {}, valLo |-> 1, valHi |-> 0],
      [name |-> "N64System::data_cache_hit_invalidate", native |-> "data_cache_hit_invalidate",
       params |-> <<"opaque", "opaque">>,
       passed |-> << <<1, "ptr">>, <<2, "id">> >>,
       ret |-> "void", enum |-> "",
       arms |-> {}, valLo |-> 1, valHi |-> 0],
      [name |-> "N64System::data_cache_hit_writeback", native |-> "data_cache_hit_writeback",
       params |-> <<"opaque", "opaque">>,
       passed |-> << <<1, "ptr">>, <<2, "id">> >>,
       ret |-> "void", enum |-> "",
       arms |-> {}, valLo |-> 1, valHi |-> 0],
      [name |-> "N64System::data_cache_hit_writeback_invalidate", native |-> "data_cache_hit_writeback_invalidate",
       params |-> <<"opaque", "opaque">>,
       passed |-> << <<1, "ptr">>, <<2, "id">> >>,
       ret |-> "void", enum |-> "",
       arms |-> {}, valLo |-> 1, valHi |-> 0],
      [name |-> "N64System::data_cache_index_writeback_invalidate", native |-> "data_cache_index_writeback_invalidate",
       params |-> <<"opaque", "opaque">>,
       passed |-> << <<1, "ptr">>, <<2, "id">> >>,
       ret |-> "void", enum |-> "",
       arms |-> {}, valLo |-> 1, valHi |-> 0],
      [name |-> "N64System::inst_cache_hit_writeback", native |-> "inst_cache_hit_writeback",
       params |-> <<"opaque", "opaque">>,
       passed |-> << <<1, "ptr">>, <<2, "id">> >>,
       ret |-> "void", enum |-> "",
       arms |-> {}, valLo |-> 1, valHi |-> 0],
      [name |-> "N64System::inst_cache_hit_invalidate", native |-> "inst_cache_hit_invalidate",
       params |-> <<"opaque", "opaque">>,
       passed |-> << <<1, "ptr">>, <<2, "id">> >>,
       ret |-> "void", enum |-> "",
       arms |-> {}, valLo |-> 1, valHi |-> 0],
      [name |-> "N64System::inst_cache_index_invalidate", native |-> "inst_cache_index_invalidate",
       params |-> <<"opaque", "opaque">>,
       passed |-> << <<1, "ptr">>, <<2, "id">> >>,
       ret |-> "void", enum |-> "",
       arms |-> {}, valLo |-> 1, valHi |-> 0],
      [name |-> "N64System::get_memory_size", native |-> "get_memory_size",
       params |-> <<>>,
       passed |-> <<>>,
       ret |-> "value", enum |-> "",
       arms |-> {}, valLo |-> 1, valHi |-> 0],
      [name |-> "N64System::is_memory_expanded", native |-> "is_memory_expanded",
       params |-> <<>>,
       passed |-> <<>>,
       ret |-> "value", enum |-> "",
       arms |-> {}, valLo |-> 1, valHi |-> 0],
      [name |-> "N64System::get_tv_type", native |-> "get_tv_type",
       params |-> <<>>,
       passed |-> <<>>,
       ret |-> "value", enum |-> "",
       arms |-> {}, valLo |-> 1, valHi |-> 0] }

\* RDP wrappers (lib.rs 2147-2337): native bound, parameter types, arguments passed, result mapping
RDPWrappers ==
    {
      [name |-> "RDP::init", native |-> "rdp_init",
       params |-> <<>>,
       passed |-> <<>>,
       ret |-> "void", enum |-> "",
       arms |-> {}, valLo |-> 1, valHi |-> 0],
      [name |-> "RDP::attach_display", native |-> "rdp_attach_display",
       params |-> <<"opaque">>,
       passed |-> << <<1, "id">> >>,
       ret |-> "void", enum |-> "",
       arms |-> {}, valLo |-> 1, valHi |-> 0],
      [name |-> "RDP::detach_display", native |-> "rdp_detach_display",
       params |-> <<>>,
       passed |-> <<>>,
       ret |-> "void", enum |-> "",
       arms |-> {}, valLo |-> 1, valHi |-> 0],
      [name |-> "RDP::sync", native |-> "rdp_sync",
       params |-> <<"opaque">>,
       passed |-> << <<1, "id">> >>,
       ret |-> "void", enum |-> "",
       arms |-> {}, valLo |-> 1, valHi |-> 0],
      [name |-> "RDP::set_clipping", native |-> "rdp_set_clipping",
       params |-> <<"opaque", "opaque", "opaque", "opaque">>,
       passed |-> << <<1, "id">>, <<2, "id">>, <<3, "id">>, <<4, "id">> >>,
       ret |-> "void", enum |-> "",
       arms |-> {}, valLo |-> 1, valHi |-> 0],
      [name |-> "RDP::set_default_clipping", native |-> "rdp_set_default_clipping",
       params |-> <<>>,
       passed |-> <<>>,
       ret |-> "void", enum |-> "",
       arms |-> {}, valLo |-> 1, valHi |-> 0],
      [name |-> "RDP::enable_primitive_fill", native |-> "rdp_enable_primitive_fill",
       params |-> <<>>,
       passed |-> <<>>,
       ret |-> "void", enum |-> "",
       arms |-> {}, valLo |-> 1, valHi |-> 0],
      [name |-> "RDP::enable_blend_fill", native |-> "rdp_enable_blend_fill",
       params |-> <<>>,
       passed |-> <<>>,
       ret |-> "void", enum |-> "",
       arms |-> {}, valLo |-> 1, valHi |-> 0],
      [name |-> "RDP::enable_texture_copy", native |-> "rdp_enable_texture_copy",
       params |-> <<>>,
       passed |-> <<>>,
       ret |-> "void", enum |-> "",
       arms |-> {}, valLo |-> 1, valHi |-> 0],
      [name |-> "RDP::load_texture", native |-> "rdp_load_texture",
       params |-> <<"opaque", "opaque", "opaque", "opaque">>,
       passed |-> << <<1, "id">>, <<2, "id">>, <<3, "id">>, <<4, "id">> >>,
       ret |-> "value", enum |-> "",
       arms |-> {}, valLo |-> 1, valHi |-> 0],
      [name |-> "RDP::load_texture_stride", native |-> "rdp_load_texture_stride",
       params |-> <<"opaque", "opaque", "opaque", "opaque", "opaque">>,
       passed |-> << <<1, "id">>, <<2, "id">>, <<3, "id">>, <<4, "id">>, <<5, "id">> >>,
       ret |-> "value", enum |-> "",
       arms |-> {}, valLo |-> 1, valHi |-> 0],
      [name |-> "RDP::draw_textured_rectangle", native |-> "rdp_draw_textured_rectangle",
       params |-> <<"opaque", "opaque", "opaque", "opaque", "opaque", "opaque">>,
       passed |-> << <<1, "id">>, <<2, "id">>, <<3, "id">>, <<4, "id">>, <<5, "id">>, <<6, "id">> >>,
       ret |-> "void", enum |-> "",
       arms |-> {}, valLo |-> 1, valHi |-> 0],
      [name |-> "RDP::draw_textured_rectangle_scaled", native |-> "rdp_draw_textured_rectangle_scaled",
       params |-> <<"opaque", "opaque", "opaque", "opaque", "opaque", "opaque", "opaque", "opaque">>,
       passed |-> << <<1, "id">>, <<2, "id">>, <<3, "id">>, <<4, "id">>, <<5, "id">>, <<6, "id">>, <<7, "id">>, <<8, "id">> >>,
       ret |-> "void", enum |-> "",
       arms |-> {}, valLo |-> 1, valHi |-> 0],
      [name |-> "RDP::draw_sprite", native |-> "rdp_draw_sprite",
       params |-> <<"opaque", "opaque", "opaque", "opaque">>,
       passed |-> << <<1, "id">>, <<2, "id">>, <<3, "id">>, <<4, "id">> >>,
       ret |-> "void", enum |-> "",
       arms |-> {}, valLo |-> 1, valHi |-> 0],
      [name |-> "RDP::draw_sprite_scaled", native |-> "rdp_draw_sprite_scaled",
       params |-> <<"opaque", "opaque", "opaque", "opaque", "opaque", "opaque">>,
       passed |-> << <<1, "id">>, <<2, "id">>, <<3, "id">>, <<4, "id">>, <<5, "id">>, <<6, "id">> >>,
       ret |-> "void", enum |-> "",
       arms |-> {}, valLo |-> 1, valHi |-> 0],
      [name |-> "RDP::set_primitive_color", native |-> "rdp_set_primitive_color",
       params |-> <<"opaque">>,
       passed |-> << <<1, "id">> >>,
       ret |-> "void", enum |-> "",
       arms |-> {}, valLo |-> 1, valHi |-> 0],
      [name |-> "RDP::set_blend_color", native |-> "rdp_set_blend_color",
       params |-> <<"opaque">>,
       passed |-> << <<1, "id">> >>,
       ret |-> "void", enum |-> "",
       arms |-> {}, valLo |-> 1, valHi |-> 0],
      [name |-> "RDP::draw_filled_rectangle", native |-> "rdp_draw_filled_rectangle",
       params |-> <<"opaque", "opaque", "opaque", "opaque">>,
       passed |-> << <<1, "id">>, <<2, "id">>, <<3, "id">>, <<4, "id">> >>,
       ret |-> "void", enum |-> "",
       arms |-> {}, valLo |-> 1, valHi |-> 0],
      [name |-> "RDP::draw_filled_triangle", native |-> "rdp_draw_filled_triangle",
       params |-> <<"opaque", "opaque", "opaque", "opaque", "opaque", "opaque">>,
       passed |-> << <<1, "id">>, <<2, "id">>, <<3, "id">>, <<4, "id">>, <<5, "id">>, <<6, "id">> >>,
       ret |-> "void", enum |-> "",
       arms |-> {}, valLo |-> 1, valHi |-> 0],
      [name |-> "RDP::set_texture_flush", native |-> "rdp_set_texture_flush",
       params |-> <<"opaque">>,
       passed |-> << <<1, "id">> >>,
       ret |-> "void", enum |-> "",
       arms |-> {}, valLo |-> 1, valHi |-> 0],
      [name |-> "RDP::close", native |-> "rdp_close",
       params |-> <<>>,
       passed |-> <<>>,
       ret |-> "void", enum |-> "",
       arms |-> {}, valLo |-> 1, valHi |-> 0] }

\* RSP wrappers (lib.rs 2347-2374): native bound, parameter types, arguments passed, result mapping
RSPWrappers ==
    {
      [name |-> "RSP::init", native |-> "rsp_init",
       params |-> <<>>,
       passed |-> <<>>,
       ret |-> "void", enum |-> "",
       arms |-> {}, valLo |-> 1, valHi |-> 0],
      [name |-> "RSP::load_microcode", native |-> "load_ucode",
       params |-> <<"opaque", "opaque">>,
       passed |-> << <<1, "ptr">>, <<2, "id">> >>,
       ret |-> "void", enum |-> "",
       arms |-> {}, valLo |-> 1, valHi |-> 0],
      [name |-> "RSP::read_microcode", native |-> "read_ucode",
       params |-> <<"opaque", "opaque">>,
       passed |-> << <<1, "ptr">>, <<2, "id">> >>,
       ret |-> "void", enum |-> "",
       arms |-> {}, valLo |-> 1, valHi |-> 0],
      [name |-> "RSP::load_data", native |-> "load_data",
       params |-> <<"opaque", "opaque">>,
       passed |-> << <<1, "ptr">>, <<2, "id">> >>,
       ret |-> "void", enum |-> "",
       arms |-> {}, valLo |-> 1, valHi |-> 0],
      [name |-> "RSP::read_data", native |-> "read_data",
       params |-> <<"opaque", "opaque">>,
       passed |-> << <<1, "ptr">>, <<2, "id">> >>,
       ret |-> "void", enum |-> "",
       arms |-> {}, valLo |-> 1, valHi |-> 0],
      [name |-> "RSP::run_microcode", native |-> "run_ucode",
       params |-> <<>>,
       passed |-> <<>>,
       ret |-> "void", enum |-> "",
       arms |-> {}, valLo |-> 1, valHi |-> 0] }

\* Timer wrappers (lib.rs 2446-2483): native bound, parameter types, arguments passed, result mapping
TimerWrappers ==
    {
      [name |-> "Timer::init", native |-> "timer_init",
       params |-> <<>>,
       passed |-> <<>>,
       ret |-> "void", enum |-> "",
       arms |-> {}, valLo |-> 1, valHi |-> 0],
      [name |-> "Timer::new_timer", native |-> "new_timer",
       params |-> <<"opaque", "opaque", "opaque">>,
       passed |-> << <<1, "id">>, <<2, "id">>, <<3, "id">> >>,
       ret |-> "value", enum |-> "",
       arms |-> {}, valLo |-> 1, valHi |-> 0],
      [name |-> "Timer::start_timer", native |-> "start_timer",
       params |-> <<"TimerLink", "opaque", "opaque", "opaque">>,
       passed |-> << <<1, "id">>, <<2, "id">>, <<3, "id">>, <<4, "id">> >>,
       ret |-> "void", enum |-> "",
       arms |-> {}, valLo |-> 1, valHi |-> 0],
      [name |-> "Timer::stop_timer", native |-> "stop_timer",
       params |-> <<"TimerLink">>,
       passed |-> << <<1, "id">> >>,
       ret |-> "void", enum |-> "",
       arms |-> {}, valLo |-> 1, valHi |-> 0],
      [name |-> "Timer::delete_timer", native |-> "delete_timer",
       params |-> <<"TimerLink">>,
       passed |-> << <<1, "id">> >>,
       ret |-> "void", enum |-> "",
       arms |-> {}, valLo |-> 1, valHi |-> 0],
      [name |-> "Timer::timer_close", native |-> "timer_close",
       params |-> <<>>,
       passed |-> <<>>,
       ret |-> "void", enum |-> "",
       arms |-> {}, valLo |-> 1, valHi |-> 0],
      [name |-> "Timer::timer_ticks", native |-> "timer_ticks",
       params |-> <<>>,
       passed |-> <<>>,
       ret |-> "value", enum |-> "",
       arms |-> {}, valLo |-> 1, valHi |-> 0] }

\* Exceptions wrappers (lib.rs 2565-2572): native bound, parameter types, arguments passed, result mapping
ExceptionsWrappers ==
    {
      [name |-> "Exceptions::register_exception_handler", native |-> "register_exception_handler",
       params |-> <<"opaque">>,
       passed |-> << <<1, "id">> >>,
       ret |-> "void", enum |-> "",
       arms |-> {}, valLo |-> 1, valHi |-> 0],
      [name |-> "Exceptions::default_exception_handler", native |-> "exception_default_handler",
       params |-> <<"opaque">>,
       passed |-> << <<1, "id">> >>,
       ret |-> "void", enum |-> "",
       arms |-> {}, valLo |-> 1, valHi |-> 0] }

\* Directory wrappers (lib.rs 2593-2602): native bound, parameter types, arguments passed, result mapping
DirectoryWrappers ==
    {
      [name |-> "Directory::find_first", native |-> "dir_findfirst",
       params |-> <<"opaque", "opaque">>,
       passed |-> << <<1, "ptr">>, <<2, "id">> >>,
       ret |-> "value", enum |-> "",
       arms |-> {}, valLo |-> 1, valHi |-> 0],
      [name |-> "Directory::find_next", native |-> "dir_findnext",
       params |-> <<"opaque", "opaque">>,
       passed |-> << <<1, "ptr">>, <<2, "id">> >>,
       ret |-> "value", enum |-> "",
       arms |-> {}, valLo |-> 1, valHi |-> 0] }

\* every public wrapper of lib.rs that binds a function of the extern block
Wrappers ==
    AudioWrappers \cup ConsoleWrappers \cup ControllerWrappers \cup MemoryPakWrappers
    \cup TransferPakWrappers \cup DisplayWrappers \cup DMAWrappers \cup DragonFSWrappers
    \cup GraphicsEngineWrappers \cup InterruptWrappers \cup N64SystemWrappers
    \cup RDPWrappers \cup RSPWrappers \cup TimerWrappers \cup ExceptionsWrappers
    \cup DirectoryWrappers

WrapperNamed(n) == CHOOSE w \in Wrappers : w.name = n

\* the functions declared in the extern "C" block of bindings.rs that lib.rs binds
NativeDecls == {w.native : w \in Wrappers}

\* ------------------------------------------------------------ the calls
\* CString::new(path) is Err when path holds a NUL byte, and
\* .expect("At ...") then panics before any native call
CStringNewFails(w, args) ==
    \E i \in 1..Len(w.params) :
        /\ w.params[i] = "str"
        /\ \E k \in 1..Len(StrOf(args[i])) : StrOf(args[i])[k] = 0

\* The C strings a native function can read through the pointer taken by
\* CString::new(path).expect(..).as_ptr(): the CString is a temporary of the
\* `let cstr` statement and is dropped (its buffer freed) at the end of that
\* statement, before the native call, so the read is of freed memory and
\* yields any NUL-free content (named like a string), the original bytes included.
DanglingReads(path) == {s \in StringIds : \A k \in 1..Len(StrOf(s)) : StrOf(s)[k] # 0}

\* what the native function can read through the string pointers of a call
\* (wrappers without a &str parameter pass no such pointer)
CStringReads(w, args) ==
    IF \E i \in 1..Len(w.params) : w.params[i] = "str"
    THEN DanglingReads(args[CHOOSE i \in 1..Len(w.params) : w.params[i] = "str"])
    ELSE {0}

\* the invalid accesses a wrapper sets up for its native call: the pointer
\* it passes for a &str is into the dropped CString
CStringErrors(w) ==
    IF \E j \in 1..Len(w.passed) : w.passed[j][2] = "cstr"
    THEN {"pointer into a dropped CString"}
    ELSE {}

\* the value the native function receives for one passed argument p =
\* <<parameter index, conversion>>; seen is what it reads through a string
\* pointer
PassArg(p, args, seen) ==
    CASE p[2] = "enum_i32" -> AsI32Param(ControllerNum, args[p[1]])
      [] p[2] = "mode_i32" -> AsI32Param(RenderMode, args[p[1]])
      [] p[2] = "bool_i32" -> AsI32Bool(args[p[1]])
      [] p[2] = "u8_c_char" -> AsCChar(args[p[1]])
      [] p[2] = "cstr" -> seen
      [] p[2] = "local_buf" -> 0
      [] OTHER -> args[p[1]]

\* the native calls a wrapper body makes, in order
NativeCalls(w, args, seen) ==
    << [f |-> w.native,
        args |-> [j \in 1..Len(w.passed) |-> PassArg(w.passed[j], args, seen)]] >>

\* ----------------------------------------------------- result mapping
NoResult == [kind |-> "none", enum |-> "", variant |-> "", val |-> 0]
PanicResult == [kind |-> "panic", enum |-> "", variant |-> "", val |-> 0]

\* the match has an arm `code => Enum::Variant` for the returned value
HasArm(w, code) == \E a \in w.arms : a[1] = code

\* the arms of codes -2 and -3 are exchanged in every match that has both
ArmForSwapped(w, code) ==
    LET c == IF code \in {-2, -3} /\ HasArm(w, -2) /\ HasArm(w, -3) THEN (-5) - code ELSE code
    IN  (CHOOSE a \in w.arms : a[1] = c)[2]

\* the variant of that arm
ArmFor(w, code) == (CHOOSE a \in w.arms : a[1] = code)[2]

VariantResult(kind, enum, variant) ==
    [kind |-> kind, enum |-> enum, variant |-> variant, val |-> 0]

\* every code of a fixed-enum match is accepted (the catch-all arm yields
\* the variant of code 0 instead of panicking)
MapResultLenient(w, code) ==
    CASE w.ret = "void" -> [kind |-> "void", enum |-> "", variant |-> "", val |-> 0]
      [] w.ret = "value" -> [kind |-> "value", enum |-> "", variant |-> "", val |-> code]
      [] w.ret = "enum" ->
            IF HasArm(w, code) THEN VariantResult("variant", w.enum, ArmFor(w, code))
            ELSE VariantResult("variant", w.enum, ArmFor(w, 0))
      [] OTHER ->
            IF HasArm(w, code) THEN VariantResult("error", w.enum, ArmFor(w, code))
            ELSE IF code >= w.valLo /\ code <= w.valHi
                 THEN [kind |-> "value", enum |-> w.enum, variant |-> "", val |-> code]
                 ELSE PanicResult

\* the `match` of a wrapper over the native return value (plain return for
\* wrappers without a match).  Arms with a literal code come first; a union
\* result then carries the values valLo..valHi through; everything else
\* reaches the panicking arm.
MapResult(w, code) ==
    CASE w.ret = "void" -> [kind |-> "void", enum |-> "", variant |-> "", val |-> 0]
      [] w.ret = "value" -> [kind |-> "value", enum |-> "", variant |-> "", val |-> code]
      [] w.ret = "enum" ->
            IF HasArm(w, code) THEN VariantResult("variant", w.enum, ArmFor(w, code))
            ELSE PanicResult
      [] OTHER ->
            IF HasArm(w, code) THEN VariantResult("error", w.enum, ArmFor(w, code))
            ELSE IF code >= w.valLo /\ code <= w.valHi
                 THEN [kind |-> "value", enum |-> w.enum, variant |-> "", val |-> code]
                 ELSE PanicResult

\* the wrapper polls again while the native function reports busy
AfterReturnSpin(w, code) ==
    IF w.native = "dma_busy" /\ code # 0 THEN "returned"
    ELSE IF MapResult(w, code) = PanicResult THEN "panic" ELSE "done"

\* where a wrapper goes once its native call has returned
AfterReturn(w, code) == IF MapResult(w, code) = PanicResult THEN "panic" ELSE "done"

\* the values a native function can return
RetValues(w) == IF w.ret = "void" THEN {0} ELSE MinCode..MaxCode
\* ------------------------------------------- data layout (TransferPak types)
\* the types with a size of their own: uint8_t, bool and the #[repr(u8)]
\* enum GBCSupportType have one byte, uint16_t two, and c_int, the
\* discriminant of a #[repr(C)] enum, four
PrimSize(t) ==
    CASE t = "uint16_t" -> 2
      [] t = "c_int" -> 4
      [] OTHER -> 1

\* "struct" for a #[repr(C)] struct, "union" for a set of alternatives laid
\* over each other, "prim" otherwise.  GBCTitle is declared `#[repr(C)] pub
\* enum` with variants that carry data: such an enum is laid out as a struct
\* of its discriminant followed by the union of its variants.
Kind(t) ==
    CASE t \in {"GameboyCartridgeHeader", "OldTitle", "NewTitle", "GBCTitle"} -> "struct"
      [] t = "GBCTitle variants" -> "union"
      [] OTHER -> "prim"

\* the fields of a type in declaration order, each <<name, type, array length>>
Fields(t) ==
    CASE t = "GameboyCartridgeHeader" ->
            << <<"entry_point", "uint8_t", 4>>, <<"logo", "uint8_t", 48>>,
               <<"unnamed_1", "GBCTitle", 1>>, <<"new_licensee_code", "uint16_t", 1>>,
               <<"is_sgb_supported", "bool", 1>>, <<"cartridge_type", "uint8_t", 1>>,
               <<"rom_size_code", "uint8_t", 1>>, <<"ram_size_code", "uint8_t", 1>>,
               <<"destination_code", "uint8_t", 1>>, <<"old_licensee_code", "uint8_t", 1>>,
               <<"version_number", "uint8_t", 1>>, <<"header_checksum", "uint8_t", 1>>,
               <<"global_checksum", "uint16_t", 1>>, <<"overflow", "uint8_t", 16>> >>
      [] t = "GBCTitle" ->
            << <<"discriminant", "c_int", 1>>, <<"variant", "GBCTitle variants", 1>> >>
      [] t = "GBCTitle variants" ->
            << <<"title", "uint8_t", 16>>, <<"old_title", "OldTitle", 1>>,
               <<"new_title", "NewTitle", 1>> >>
      [] t = "OldTitle" ->
            << <<"title", "uint8_t", 15>>, <<"gbc_support", "GBCSupportType", 1>> >>
      [] t = "NewTitle" ->
            << <<"title", "uint8_t", 11>>, <<"manufacturer_code", "uint8_t", 4>>,
               <<"gbc_support", "GBCSupportType", 1>> >>
      [] OTHER -> <<>>

\* the types that are laid out
LayoutTypes == {"GameboyCartridgeHeader", "GBCTitle", "GBCTitle variants", "OldTitle", "NewTitle"}

\* n rounded up to a multiple of a
RoundUp(n, a) == ((n + a - 1) \div a) * a

RECURSIVE AlignOf(_), SizeOf(_), MaxAlign(_), MaxSize(_), OffsetsFrom(_, _), EndFrom(_, _)

\* the alignment of a type: its own size for a primitive, the largest
\* alignment of a field otherwise
AlignOf(t) == IF Kind(t) = "prim" THEN PrimSize(t) ELSE MaxAlign(Fields(t))

MaxAlign(fs) ==
    IF fs = <<>> THEN 1
    ELSE LET a == AlignOf(Head(fs)[2])
             m == MaxAlign(Tail(fs))
         IN  IF a > m THEN a ELSE m

\* the largest size of a field (an array field has length times the size of
\* its element)
MaxSize(fs) ==
    IF fs = <<>> THEN 0
    ELSE LET s == SizeOf(Head(fs)[2]) * Head(fs)[3]
             m == MaxSize(Tail(fs))
         IN  IF s > m THEN s ELSE m

\* the offsets of the fields fs of a struct when the bytes below off are taken:
\* each field goes to the next multiple of its alignment
OffsetsFrom(fs, off) ==
    IF fs = <<>> THEN <<>>
    ELSE LET o == RoundUp(off, AlignOf(Head(fs)[2]))
         IN  <<o>> \o OffsetsFrom(Tail(fs), o + SizeOf(Head(fs)[2]) * Head(fs)[3])

\* the first byte after the fields fs of a struct
EndFrom(fs, off) ==
    IF fs = <<>> THEN off
    ELSE EndFrom(Tail(fs), RoundUp(off, AlignOf(Head(fs)[2])) + SizeOf(Head(fs)[2]) * Head(fs)[3])

\* the size of a type: a struct ends after its last field, a union after its
\* largest alternative, both rounded up to the alignment
SizeOf(t) ==
    CASE Kind(t) = "prim" -> PrimSize(t)
      [] Kind(t) = "union" -> RoundUp(MaxSize(Fields(t)), AlignOf(t))
      [] OTHER -> RoundUp(EndFrom(Fields(t), 0), AlignOf(t))

\* the offsets of the fields of a type: the alternatives of a union all
\* start at 0
OffsetsOf(t) ==
    IF Kind(t) = "union" THEN [i \in 1..Len(Fields(t)) |-> 0]
    ELSE OffsetsFrom(Fields(t), 0)

\* the layout of a type
LayoutOf(t) == [type |-> t, offsets |-> OffsetsOf(t), size |-> SizeOf(t), align |-> AlignOf(t)]

NoLayout == [type |-> "", offsets |-> <<>>, size |-> 0, align |-> 0]

\* --------------------------------------------- controller bitfields (lib.rs)
\* the fields of bitfield! N64Controller(u64), in declaration order, each
\* <<getter, msb, lsb, 1 if it has a setter else 0>>; bit 0 is the least
\* significant bit of the u64
N64ControllerFields ==
    << <<"padding_1", 63, 48, 0>>, <<"err", 47, 46, 1>>, <<"padding_2", 45, 32, 0>>,
       <<"data", 31, 0, 1>>,
       <<"A", 31, 31, 1>>, <<"B", 30, 30, 1>>, <<"Z", 29, 29, 1>>, <<"start", 28, 28, 1>>,
       <<"up", 27, 27, 1>>, <<"down", 26, 26, 1>>, <<"left", 25, 25, 1>>,
       <<"right", 24, 24, 1>>, <<"padding_3", 23, 22, 0>>,
       <<"L", 21, 21, 1>>, <<"R", 20, 20, 1>>, <<"C_up", 19, 19, 1>>, <<"C_down", 18, 18, 1>>,
       <<"C_left", 17, 17, 1>>, <<"C_right", 16, 16, 1>>,
       <<"x", 15, 8, 1>>, <<"y", 7, 0, 1>> >>

\* the field l is declared one bit too high
GCControllerFieldsShifted ==
    << <<"data", 63, 0, 1>>, <<"err", 63, 62, 1>>, <<"origin_unchecked", 61, 61, 1>>,
       <<"start", 60, 60, 1>>, <<"y", 59, 59, 1>>, <<"x", 58, 58, 1>>, <<"b", 57, 57, 1>>,
       <<"a", 56, 56, 1>>, <<"unused2", 55, 55, 0>>, <<"l", 55, 55, 1>>, <<"r", 53, 53, 1>>,
       <<"z", 52, 52, 1>>, <<"up", 51, 51, 1>>, <<"down", 50, 50, 1>>, <<"right", 49, 49, 1>>,
       <<"left", 48, 48, 1>>,
       <<"stick_x", 47, 40, 1>>, <<"stick_y", 39, 32, 1>>, <<"cstick_x", 31, 24, 1>>,
       <<"cstick_y", 23, 16, 1>>, <<"analog_l", 15, 8, 1>>, <<"analog_r", 7, 0, 1>> >>

\* the fields of bitfield! GCController(u64)
GCControllerFields ==
    << <<"data", 63, 0, 1>>, <<"err", 63, 62, 1>>, <<"origin_unchecked", 61, 61, 1>>,
       <<"start", 60, 60, 1>>, <<"y", 59, 59, 1>>, <<"x", 58, 58, 1>>, <<"b", 57, 57, 1>>,
       <<"a", 56, 56, 1>>, <<"unused2", 55, 55, 0>>, <<"l", 54, 54, 1>>, <<"r", 53, 53, 1>>,
       <<"z", 52, 52, 1>>, <<"up", 51, 51, 1>>, <<"down", 50, 50, 1>>, <<"right", 49, 49, 1>>,
       <<"left", 48, 48, 1>>,
       <<"stick_x", 47, 40, 1>>, <<"stick_y", 39, 32, 1>>, <<"cstick_x", 31, 24, 1>>,
       <<"cstick_y", 23, 16, 1>>, <<"analog_l", 15, 8, 1>>, <<"analog_r", 7, 0, 1>> >>

ControllerFields(t) == IF t = "N64Controller" THEN N64ControllerFields ELSE GCControllerFields

\* the bits of a u64 word; a word is held as the set of its bits that are 1
WordBits == 0..63

\* the bits of field f
FieldBits(f) == f[3]..f[2]

\* the getter of f: the bits msb..lsb of the word, moved down to bit 0
GetField(word, f) == {b - f[3] : b \in word \cap FieldBits(f)}

\* the setter of f: the bits msb..lsb of the word are replaced by the low
\* bits of value
SetField(word, f, value) ==
    (word \ FieldBits(f)) \cup {f[3] + b : b \in value \cap (0..(f[2] - f[3]))}

\* the words a field is written into: all zeros, all ones, every other bit
WordValues == {{}, WordBits, {b \in WordBits : b % 2 = 0}}

\* the values written to a field of the given width: all zeros, all ones, one
FieldValues(f) == {{}, 0..(f[2] - f[3]), {0}}

NoWrite == [type |-> "", field |-> 0, before |-> {}, value |-> {}, after |-> {}]


\* ------------------------------------------- tick arithmetic (bindings.rs)
\* the u32 values the tick helpers are called with, as <<high, low>> halves
U32Values == {<<h, l>> : h \in {0, HalfSign - 1, HalfSign, HalfMax}, l \in {0, 1, HalfMax}}

\* `a - b` on u32: the wrapped difference and whether it overflowed
U32Sub(a, b) ==
    LET borrow == IF a[2] < b[2] THEN 1 ELSE 0
        lo == (a[2] - b[2]) % HalfMod
        hi == (a[1] - b[1] - borrow) % HalfMod
    IN  [val |-> <<hi, lo>>, overflow |-> (a[1] - b[1] - borrow) < 0]

\* `x as int32_t` for a u32: the same 32 bits read as two's complement
AsInt32(x) == IF x[1] >= HalfSign THEN (x[1] - HalfMod) * HalfMod + x[2]
              ELSE x[1] * HalfMod + x[2]

\* TICKS_DISTANCE: (to - from) as int32_t.  `to - from` is the checked u32
\* subtraction of Rust: it panics when overflow checks are compiled in
\* (debug profile) and wraps otherwise (release profile).
TICKS_DISTANCE(from, to, checks) ==
    LET d == U32Sub(to, from)
    IN  IF d.overflow /\ checks THEN PanicResult
        ELSE [kind |-> "value", enum |-> "", variant |-> "", val |-> AsInt32(d.val)]

\* TICKS_BEFORE: TICKS_DISTANCE(t1, t2) > 0; val is 1 for true, 0 for false
TICKS_BEFORE(t1, t2, checks) ==
    LET d == TICKS_DISTANCE(t1, t2, checks)
    IN  IF d = PanicResult THEN PanicResult
        ELSE [kind |-> "bool", enum |-> "", variant |-> "", val |-> IF d.val > 0 THEN 1 ELSE 0]

\* ------------------------------------------ timer arithmetic (bindings.rs)
\* `x as c_int` for a c_longlong: the low 32 bits read as two's complement
AsCInt(x) == IF x >= I32Min /\ x <= I32Max THEN x
             ELSE ((x - I32Min) % (HalfMod * HalfMod)) + I32Min

\* (us * (46875 / 1000 as c_longlong)) as c_int: `as` binds tighter than `/`,
\* so the factor is the integer quotient 46875 / 1000
TIMER_TICKS(us) == AsCInt(us * (46875 \div 1000))

\* (tk * (1000 / 46875 as c_longlong)) as c_int
TIMER_MICROS(tk) == AsCInt(tk * (1000 \div 46875))

\* us * 46875 / 1000 (arguments are non-negative, where / truncates as \div)
TIMER_TICKS_LL(us) == (us * 46875) \div 1000

\* tk * 1000 / 46875
TIMER_MICROS_LL(tk) == (tk * 1000) \div 46875

TimerArgs == 0..MaxTimerArg

\* ---------------------------------------- the COP0 count register ($9)
\* the null pointer
NullPtr == 0

\* C0_COUNT(): x is core::ptr::null_mut(); the asm block moves register $9
\* into the place *x, a store through x; x is returned.  count is the value
\* of the register.
C0_COUNT(count) == [ptr |-> NullPtr, stored |-> count, storedAt |-> NullPtr]

\* TICKS_READ(): return C0_COUNT()
TICKS_READ(count) == C0_COUNT(count)

\* the invalid accesses of reading the register through cell = C0_COUNT(..)
\* and dereferencing the pointer it returns
CountErrors(cell) ==
    (IF cell.storedAt = NullPtr THEN {"store through null pointer"} ELSE {})
    \cup (IF cell.ptr = NullPtr THEN {"load through null pointer"} ELSE {})

\* What `*C0_COUNT()` yields.  A store and a load through the null pointer
\* are undefined behaviour: the access faults (the address is not mapped)
\* or the load yields any 32-bit value, the value of the register included.
\* Only a pointer to a live place yields the value stored there.
DerefCount(cell) ==
    IF CountErrors(cell) = {}
    THEN {[kind |-> "value", enum |-> "", variant |-> "", val |-> AsInt32(cell.stored)]}
    ELSE {[kind |-> "fault", enum |-> "", variant |-> "", val |-> 0]}
         \cup {[kind |-> "value", enum |-> "", variant |-> "", val |-> AsInt32(v)] :
                   v \in U32Values}

\* ------------------------------------------------ 64-bit native returns
\* the native functions whose C prototype returns long long
LongLongNatives == {"timer_ticks"}

\* the widths cty::c_long has: 32 bits on a target with 32-bit pointers, 64
\* bits on a target with 64-bit pointers
CLongWidths == {32, 64}

\* the widths of c_long with which the result of a wrapper can be read (0
\* for a wrapper whose native function returns no c_long)
CLongWidthsOf(w) == IF w.native \in LongLongNatives THEN CLongWidths ELSE {0}

\* the upper 32 bits a native function can return
RetHighWords(w) == IF w.native \in LongLongNatives THEN 0..MaxHighWord ELSE {0}

\* a 32-bit word (held as the i32 of its bits) widened to <<upper, lower>>
SignExtend(word) == <<IF word < 0 THEN -1 ELSE 0, word>>

\* What a wrapper receives as <<upper word, lower word>> when the native
\* function returned the 64-bit value hi:lo.  A native function declared
\* `-> c_long` but returning long long is read as a c_long: all 64 bits
\* where c_long has 64, and where it has 32 only one 32-bit register of the
\* value (the lower word when the ABI returns 64 bits in one register, the
\* upper word when it returns them in a big-endian register pair).
Received(w, hi, lo, bits) ==
    IF w.native \in LongLongNatives /\ bits = 32
    THEN {SignExtend(lo), SignExtend(hi)}
    ELSE {<<hi, lo>>}

\* ------------------------------------------------- the native timer list
\* the wrappers of the functions that work on the native library's list of
\* timers
TimerListWrappers ==
    {w \in Wrappers :
        w.native \in {"new_timer", "start_timer", "stop_timer", "delete_timer"}}

\* The native library's list after function f has run with arguments args
\* and returned code.  new_timer creates a timer (at the address it returns)
\* and adds it to the list, start_timer adds the timer it is given,
\* stop_timer and delete_timer remove the timer they are given.
TimerListAfter(f, args, code, list) ==
    CASE f = "new_timer" -> list \cup {code}
      [] f = "start_timer" -> list \cup {args[1]}
      [] f = "stop_timer" -> list \ {args[1]}
      [] f = "delete_timer" -> list \ {args[1]}
      [] OTHER -> list

\* the timers the native library holds allocated after f has run:
\* new_timer allocates one, delete_timer frees the one it is given
TimerHeapAfter(f, args, code, heap) ==
    CASE f = "new_timer" -> heap \cup {code}
      [] f = "delete_timer" -> heap \ {args[1]}
      [] OTHER -> heap

\* delete_timer frees the timer it is given: an invalid access when that is
\* no timer the native library allocated
TimerErrors(f, args, heap) ==
    IF f = "delete_timer" /\ args[1] \notin heap
    THEN {"free of a pointer the allocator did not return"}
    ELSE {}

\* the values native function f can return: new_timer returns the address
\* of a newly allocated timer
NativeCanReturn(f, code, heap) == f = "new_timer" => code \in HeapTimers \ heap

\* Timer::new_timer returns `bindings::new_timer(..).read()`, a copy of the
\* native timer, which the caller moves into one of its own TimerLink
\* objects: copies[k] is the native timer of which object k holds a copy (0
\* for none)
CopiesAfter(w, code, copies) ==
    IF w.native = "new_timer"
    THEN {[copies EXCEPT ![k] = code] : k \in CallerTimers}
    ELSE {copies}

\* ----------------------------------------------------------------- _start
\* the wrapper calls of _start, in order, with their arguments
\* (Resolution::RESOLUTION_256x240 = 2, DEPTH_16_BPP = 0, GAMMA_NONE = 0,
\* ANTIALIAS_OFF = 0)
StartSeq ==
    << [w |-> "Audio::init", args |-> <<500, 1>>],
       [w |-> "Console::init", args |-> <<>>],
       [w |-> "Controller::init", args |-> <<>>],
       [w |-> "Display::init", args |-> <<2, 0, 1, 0, 0>>],
       [w |-> "Interrupt::init", args |-> <<>>],
       [w |-> "RDP::init", args |-> <<>>],
       [w |-> "RSP::init", args |-> <<>>],
       [w |-> "Timer::init", args |-> <<>>] >>

\* --------------------------------------------------------------- the state
VARIABLES
    driver,       \* "start": the program of main.rs; "client": any caller of the crate
    startPc,      \* index into StartSeq of the next call of _start
    pc,           \* "idle", "native", "returned", "done", "panic", "fault", "loop"
    call,         \* the wrapper call in progress or last finished
    nativeLog,    \* the native calls made by the current wrapper call, in order
    ret,          \* the value the native function returned
    result,       \* what the wrapper handed back to its caller
    consoleInit,  \* console_init has run with no console_close since
    displayInit,  \* display_init has run with no display_close since
    cLongBits,    \* the width of cty::c_long in the build that reads the c_long of this call
    retHi,        \* the upper 32 bits of a 64-bit native return value (ret holds the lower)
    resultHi,     \* the upper 32 bits of a 64-bit wrapper result (result.val holds the lower)
    memErrors,    \* the invalid memory accesses of the call in progress
    timerList,    \* the addresses of the timers in the native library's list
    timerHeap,    \* the addresses of the timers the native library holds allocated
    timerCopies,  \* for each TimerLink object of the caller, the native timer it copies
    layout,       \* the layout last worked out for a type
    write         \* the last write of a field of a controller word

timerVars == <<timerList, timerHeap, timerCopies>>

\* what working on data alone leaves alone
callVars == <<startPc, pc, call, nativeLog, ret, result, consoleInit, displayInit,
              cLongBits, retHi, resultHi, memErrors, timerList, timerHeap, timerCopies>>

vars == <<driver, startPc, pc, call, nativeLog, ret, result, consoleInit, displayInit,
          cLongBits, retHi, resultHi, memErrors, timerList, timerHeap, timerCopies, layout,
          write>>

NoCall == [w |-> "", args |-> <<>>, checks |-> FALSE]

Init ==
    /\ driver \in {"start", "client", "timers", "layout", "fields"}
    /\ startPc = 1
    /\ pc = "idle"
    /\ call = NoCall
    /\ nativeLog = <<>>
    /\ ret = 0
    /\ result = NoResult
    /\ consoleInit = FALSE
    /\ displayInit = FALSE
    /\ cLongBits = 0
    /\ retHi = 0
    /\ resultHi = 0
    /\ memErrors = {}
    /\ timerList = {}
    /\ timerHeap = {}
    /\ timerCopies = [k \in CallerTimers |-> 0]
    /\ layout = NoLayout
    /\ write = NoWrite

\* a wrapper is entered: it converts its arguments and invokes its native
\* function, or panics in CString::new(..).expect(..) before doing so
Enter(w, args) ==
    /\ pc = "idle"
    /\ call' = [w |-> w.name, args |-> args, checks |-> FALSE]
    /\ result' = NoResult
    /\ ret' = 0
    /\ IF CStringNewFails(w, args)
       THEN /\ nativeLog' = <<>>
            /\ pc' = "panic"
            /\ memErrors' = {}
       ELSE /\ \E seen \in CStringReads(w, args) : nativeLog' = NativeCalls(w, args, seen)
            /\ pc' = "native"
            /\ memErrors' = CStringErrors(w)
    /\ retHi' = 0
    /\ resultHi' = 0
    /\ cLongBits' = 0
    /\ UNCHANGED <<consoleInit, displayInit, timerVars, layout, write>>

\* a client of the crate calls any wrapper with any arguments (the timer
\* list functions are called by the client of TimerCall)
Call ==
    /\ driver = "client"
    /\ pc = "idle"
    /\ \E w \in Wrappers \ TimerListWrappers : \E args \in ArgTuples(w.params) : Enter(w, args)
    /\ UNCHANGED <<driver, startPc>>

\* a client with TimerLink objects of its own calls the timer list functions
\* (new_timer while the native library can allocate a timer)
TimerCall ==
    /\ driver = "timers"
    /\ pc = "idle"
    /\ \E w \in TimerListWrappers :
        /\ w.native = "new_timer" => HeapTimers \ timerHeap # {}
        /\ \E args \in ArgTuples(w.params) : Enter(w, args)
    /\ UNCHANGED <<driver, startPc>>

\* _start makes its next call
StartCall ==
    /\ driver = "start"
    /\ pc = "idle"
    /\ startPc <= Len(StartSeq)
    /\ Enter(WrapperNamed(StartSeq[startPc].w), StartSeq[startPc].args)
    /\ startPc' = startPc + 1
    /\ UNCHANGED driver

\* _start reaches its final `loop {}`
StartLoop ==
    /\ driver = "start"
    /\ startPc = Len(StartSeq) + 1
    /\ pc = "idle"
    /\ pc' = "loop"
    /\ UNCHANGED <<driver, startPc, call, nativeLog, ret, result, consoleInit, displayInit,
                   cLongBits, retHi, resultHi, memErrors, timerVars, layout, write>>

\* console state after a native function has run
ConsoleAfter(f, before) ==
    IF f = "console_init" THEN TRUE ELSE IF f = "console_close" THEN FALSE ELSE before

\* display state after a native function has run
DisplayAfter(f, before) ==
    IF f = "display_init" THEN TRUE ELSE IF f = "display_close" THEN FALSE ELSE before

\* the native function returns (it may also never return: this step is not fair)
NativeReturn ==
    /\ pc = "native"
    /\ \E code \in RetValues(WrapperNamed(call.w)) :
        /\ NativeCanReturn(nativeLog[Len(nativeLog)].f, code, timerHeap)
        /\ ret' = code
    /\ timerList' = TimerListAfter(nativeLog[Len(nativeLog)].f, nativeLog[Len(nativeLog)].args,
                                   ret', timerList)
    /\ timerHeap' = TimerHeapAfter(nativeLog[Len(nativeLog)].f, nativeLog[Len(nativeLog)].args,
                                   ret', timerHeap)
    /\ memErrors' = memErrors \cup TimerErrors(nativeLog[Len(nativeLog)].f,
                                               nativeLog[Len(nativeLog)].args, timerHeap)
    /\ \E hi \in RetHighWords(WrapperNamed(call.w)) : retHi' = hi
    /\ pc' = "returned"
    /\ consoleInit' = ConsoleAfter(nativeLog[Len(nativeLog)].f, consoleInit)
    /\ displayInit' = DisplayAfter(nativeLog[Len(nativeLog)].f, displayInit)
    /\ UNCHANGED <<driver, startPc, call, nativeLog, result, cLongBits, resultHi, timerCopies,
                   layout, write>>

\* the wrapper maps the returned value and returns to its caller or panics
Finish ==
    /\ pc = "returned"
    /\ \E bits \in CLongWidthsOf(WrapperNamed(call.w)) :
       \E got \in Received(WrapperNamed(call.w), retHi, ret, bits) :
        /\ cLongBits' = bits
        /\ pc' = AfterReturn(WrapperNamed(call.w), got[2])
        /\ result' = IF pc' = "returned" THEN result
                      ELSE MapResult(WrapperNamed(call.w), got[2])
        /\ resultHi' = IF pc' = "returned" THEN resultHi ELSE got[1]
    /\ \E copies \in CopiesAfter(WrapperNamed(call.w), ret, timerCopies) : timerCopies' = copies
    /\ UNCHANGED <<driver, startPc, call, nativeLog, ret, consoleInit, displayInit,
                   retHi, memErrors, timerList, timerHeap, layout, write>>

\* the caller has the wrapper's result and goes on
Resume ==
    /\ pc = "done"
    /\ pc' = "idle"
    /\ call' = NoCall
    /\ nativeLog' = <<>>
    /\ ret' = 0
    /\ result' = NoResult
    /\ retHi' = 0
    /\ resultHi' = 0
    /\ memErrors' = {}
    /\ cLongBits' = 0
    /\ UNCHANGED <<driver, startPc, consoleInit, displayInit, timerVars, layout, write>>

\* a client may call an inline helper when no call is in progress
HelperEnabled == driver = "client" /\ pc = "idle"

\* a call of an inline helper: no native function is involved; a u32
\* argument takes two places of args, high half first
Helper(name, args, checks, res) ==
    /\ call' = [w |-> name, args |-> args, checks |-> checks]
    /\ nativeLog' = <<>>
    /\ result' = res
    /\ pc' = IF res = PanicResult THEN "panic" ELSE "done"
    /\ memErrors' = {}
    /\ UNCHANGED <<driver, startPc, ret, consoleInit, displayInit, cLongBits, retHi, resultHi,
                   timerVars, layout, write>>

ValueResult(v) == [kind |-> "value", enum |-> "", variant |-> "", val |-> v]

\* N64System::get_ticks_distance(from, to)
GetTicksDistance ==
    /\ HelperEnabled
    /\ \E from \in U32Values, to \in U32Values, checks \in BOOLEAN :
        Helper("N64System::get_ticks_distance", from \o to, checks,
               TICKS_DISTANCE(from, to, checks))

\* N64System::get_ticks_before(t1, t2)
GetTicksBefore ==
    /\ HelperEnabled
    /\ \E t1 \in U32Values, t2 \in U32Values, checks \in BOOLEAN :
        Helper("N64System::get_ticks_before", t1 \o t2, checks,
               TICKS_BEFORE(t1, t2, checks))

\* Timer::TIMER_TICKS(us)
TimerTicks ==
    /\ HelperEnabled
    /\ \E us \in TimerArgs :
        Helper("Timer::TIMER_TICKS", <<us>>, FALSE, ValueResult(TIMER_TICKS(us)))

\* Timer::TIMER_MICROS(tk)
TimerMicros ==
    /\ HelperEnabled
    /\ \E tk \in TimerArgs :
        Helper("Timer::TIMER_MICROS", <<tk>>, FALSE, ValueResult(TIMER_MICROS(tk)))

\* Timer::TIMER_TICKS_LL(us)
TimerTicksLL ==
    /\ HelperEnabled
    /\ \E us \in TimerArgs :
        Helper("Timer::TIMER_TICKS_LL", <<us>>, FALSE, ValueResult(TIMER_TICKS_LL(us)))

\* Timer::TIMER_MICROS_LL(tk)
TimerMicrosLL ==
    /\ HelperEnabled
    /\ \E tk \in TimerArgs :
        Helper("Timer::TIMER_MICROS_LL", <<tk>>, FALSE, ValueResult(TIMER_MICROS_LL(tk)))

\* a call of a wrapper that reads the count register through cell; a u32
\* result is held in result.val as the i32 of its bits
RegisterRead(name, count, cell) ==
    /\ call' = [w |-> name, args |-> count, checks |-> FALSE]
    /\ nativeLog' = <<>>
    /\ \E res \in DerefCount(cell) :
        /\ result' = res
        /\ pc' = IF res.kind = "fault" THEN "fault" ELSE "done"
    /\ memErrors' = CountErrors(cell)
    /\ UNCHANGED <<driver, startPc, ret, consoleInit, displayInit, cLongBits, retHi, resultHi,
                   timerVars, layout, write>>

\* COP0::COUNT()
Cop0Count ==
    /\ HelperEnabled
    /\ \E count \in U32Values : RegisterRead("COP0::COUNT", count, C0_COUNT(count))

\* N64System::get_ticks_read()
GetTicksRead ==
    /\ HelperEnabled
    /\ \E count \in U32Values :
        RegisterRead("N64System::get_ticks_read", count, TICKS_READ(count))

\* the compiler lays out one of the TransferPak types
LayOut ==
    /\ driver = "layout"
    /\ \E t \in LayoutTypes : layout' = LayoutOf(t)
    /\ UNCHANGED <<driver, callVars, write>>

\* a field of a controller word is written through its setter
WriteField ==
    /\ driver = "fields"
    /\ \E t \in {"N64Controller", "GCController"} :
        \E i \in 1..Len(ControllerFields(t)) :
            /\ ControllerFields(t)[i][4] = 1
            /\ \E word \in WordValues, value \in FieldValues(ControllerFields(t)[i]) :
                write' = [type |-> t, field |-> i, before |-> word, value |-> value,
                          after |-> SetField(word, ControllerFields(t)[i], value)]
    /\ UNCHANGED <<driver, callVars, layout>>

Next ==
    \/ Call
    \/ TimerCall
    \/ StartCall
    \/ StartLoop
    \/ NativeReturn
    \/ Finish
    \/ Resume
    \/ GetTicksDistance
    \/ GetTicksBefore
    \/ TimerTicks
    \/ TimerMicros
    \/ TimerTicksLL
    \/ TimerMicrosLL
    \/ Cop0Count
    \/ GetTicksRead
    \/ LayOut
    \/ WriteField

Spec == Init /\ [][Next]_vars

\* once the native call has returned the wrapper keeps running: Finish is
\* plain straight-line code of the single thread
SpecFair == Spec /\ WF_vars(Finish)

\* ================================================================ claims
\* the wrapper of the call in progress binds a native function
InWrapper == \E w \in Wrappers : w.name = call.w

\* the wrapper of the call in progress
CurW == WrapperNamed(call.w)

\* the wrapper has been through its native call and has finished
Finished == pc \in {"done", "panic"} /\ InWrapper /\ nativeLog # <<>>

\* the codes an enum declaration documents
Documented(e) == {p[2] : p \in EnumDecl(e)}

C2_VariantIsCode ==
    (Finished /\ pc = "done" /\ result.kind = "variant") =>
        /\ AsI32Enum(result.enum, result.variant) = ret
        /\ \A c \in MinCode..MaxCode :
               (c # ret /\ MapResult(CurW, c) # PanicResult)
                   => MapResult(CurW, c).variant # result.variant

\* TransferPak::init got -3 and returned NoController
C2_Witness ==
    /\ pc = "done"
    /\ call.w = "TransferPak::init"
    /\ ret = -3
    /\ result.variant = "NoController"

\* the native argument nv carries the caller's argument cv of type t
Carries(t, cv, nv) ==
    CASE t = "ControllerNum" -> nv = cv - 1
      [] t = "RenderMode" -> nv = cv - 1
      [] t = "u8" -> (nv - cv) % 256 = 0
      [] t = "str" -> StrOf(nv) = StrOf(cv)
      [] OTHER -> nv = cv

\* C3: a finished wrapper call has made exactly one native call, of the
\* function the wrapper binds, and that call received every argument value
\* of the caller.
C3_PassThrough ==
    (pc \in {"done", "panic"} /\ InWrapper) =>
        /\ Len(nativeLog) = 1
        /\ nativeLog[1].f = CurW.native
        /\ nativeLog[1].f \in NativeDecls
        /\ \A i \in 1..Len(CurW.params) :
               \E j \in 1..Len(CurW.passed) :
                   /\ CurW.passed[j][1] = i
                   /\ Carries(CurW.params[i], call.args[i], nativeLog[1].args[j])

\* C4: once its native call has returned, a wrapper returns or panics.
C4_WrapperFinishes == (pc = "returned") ~> (pc \in {"done", "panic"})

\* DMA::get_busy returned to its caller although the native function
\* reported the controller busy
C4_Witness ==
    /\ pc = "done"
    /\ call.w = "DMA::get_busy"
    /\ ret # 0
    /\ result.val = ret

\* C5: get_dpad_direction returns the direction in polar order for the
\* native values 0..7 and returns to its caller when the native value is -1
\* (D-pad not pressed).
C5_DPadNotPressed ==
    (Finished /\ call.w = "Controller::get_dpad_direction") =>
        /\ ret \in 0..7 =>
               /\ pc = "done"
               /\ result.variant = <<"R", "UR", "U", "UL", "L", "DL", "D", "DR">>[ret + 1]
        /\ ret = -1 => pc = "done"

\* C6: in the program of _start, display_init is not called while the console
\* is initialised and console_init is not called while the display is.
C6_ConsoleDisplayExclusive ==
    (driver = "start" /\ pc = "native") =>
        /\ nativeLog[1].f = "display_init" => ~consoleInit
        /\ nativeLog[1].f = "console_init" => ~displayInit

\* the u32 with the bits of the i32 r
ToU32(r) == <<(r \div HalfMod) % HalfMod, r % HalfMod>>

\* a + b mod 2^32
U32AddWrap(a, b) ==
    <<(a[1] + b[1] + ((a[2] + b[2]) \div HalfMod)) % HalfMod, (a[2] + b[2]) % HalfMod>>

\* C7: get_ticks_distance(from, to) does not panic and returns the signed
\* 32-bit value r of (to - from) mod 2^32, that is from + r = to mod 2^32.
C7_TicksDistance ==
    (pc \in {"done", "panic"} /\ call.w = "N64System::get_ticks_distance") =>
        /\ pc = "done"
        /\ U32AddWrap(<<call.args[1], call.args[2]>>, ToU32(result.val))
               = <<call.args[3], call.args[4]>>

\* C8: get_ticks_before(t1, t2) does not panic and is true exactly when
\* 0 < (t2 - t1) mod 2^32 < 2^31.
C8_TicksBefore ==
    (pc \in {"done", "panic"} /\ call.w = "N64System::get_ticks_before") =>
        /\ pc = "done"
        /\ (result.val = 1) <=>
               LET d == U32Sub(<<call.args[3], call.args[4]>>, <<call.args[1], call.args[2]>>).val
               IN  d # <<0, 0>> /\ d[1] < HalfSign

\* C9: TIMER_TICKS(us) is us * 46875 / 1000 truncated, the value of
\* TIMER_TICKS_LL(us).
C9_TimerTicks ==
    (pc = "done" /\ call.w = "Timer::TIMER_TICKS") =>
        /\ result.val = (call.args[1] * 46875) \div 1000
        /\ result.val = TIMER_TICKS_LL(call.args[1])

\* C10: TIMER_MICROS(tk) is tk * 1000 / 46875 truncated, the value of
\* TIMER_MICROS_LL(tk).
C10_TimerMicros ==
    (pc = "done" /\ call.w = "Timer::TIMER_MICROS") =>
        /\ result.val = (call.args[1] * 1000) \div 46875
        /\ result.val = TIMER_MICROS_LL(call.args[1])

\* C11: Timer::timer_ticks hands its caller the 64-bit total the native
\* function returned, upper and lower 32 bits alike.
C11_TimerTicks64 ==
    (pc = "done" /\ call.w = "Timer::timer_ticks") =>
        /\ resultHi = retHi
        /\ result.val = ret

\* C12: COP0::COUNT() and N64System::get_ticks_read() return the value of
\* the count register and access no invalid memory location on the way.
C12_CountRead ==
    (pc \in {"done", "fault"} /\ call.w \in {"COP0::COUNT", "N64System::get_ticks_read"}) =>
        /\ pc = "done"
        /\ result.val = AsInt32(call.args)
        /\ memErrors = {}

\* C13: while the native function of chdir, dir_find_first, open or draw_text
\* runs, the pointer it was given is to a live NUL-terminated copy of the
\* caller's string (the copy is not freed before the native call has returned).
C13_CStringLive ==
    (pc \in {"native", "returned"} /\ InWrapper) =>
        \A j \in 1..Len(CurW.passed) :
            CurW.passed[j][2] = "cstr" =>
                /\ memErrors = {}
                /\ StrOf(nativeLog[1].args[j]) = StrOf(call.args[CurW.passed[j][1]])

\* the native function of the call in progress is one that is handed a timer
TimerHanded == InWrapper /\ CurW.native \in {"start_timer", "stop_timer", "delete_timer"}

\* C14: a timer made by Timer::new_timer and handed to start_timer,
\* stop_timer or delete_timer reaches the native library at the address
\* new_timer allocated; once stop_timer or delete_timer has returned that
\* timer is off the native list; and between calls the native list holds
\* only timers the caller has the address of.
C14_SameTimer ==
    /\ (pc = "native" /\ TimerHanded /\ timerCopies[call.args[1]] # 0) =>
           nativeLog[1].args[1] = timerCopies[call.args[1]]
    /\ (pc = "done" /\ InWrapper /\ CurW.native \in {"stop_timer", "delete_timer"}
           /\ timerCopies[call.args[1]] # 0) =>
           timerCopies[call.args[1]] \notin timerList
    /\ pc = "idle" => timerList \subseteq CallerTimers

\* C15: GBCTitle is 16 bytes, its three alternatives lying over each other
\* from offset 0 with no discriminant stored, OldTitle and NewTitle are 16
\* bytes each, and in GameboyCartridgeHeader new_licensee_code is at byte
\* offset 68 and the header has 96 bytes.
C15_HeaderLayout ==
    /\ layout.type = "GBCTitle" =>
           /\ layout.size = 16
           /\ \A i \in 1..Len(Fields("GBCTitle")) : Fields("GBCTitle")[i][1] # "discriminant"
    /\ layout.type = "GBCTitle variants" =>
           /\ layout.size = 16
           /\ layout.offsets = <<0, 0, 0>>
    /\ layout.type \in {"OldTitle", "NewTitle"} => layout.size = 16
    /\ layout.type = "GameboyCartridgeHeader" =>
           /\ Fields(layout.type)[4][1] = "new_licensee_code"
           /\ layout.offsets[4] = 68
           /\ layout.size = 96

\* the bits hi, hi - 1, .., lo as single-bit fields
RECURSIVE Singles(_, _)
Singles(hi, lo) == IF hi < lo THEN <<>> ELSE << <<hi, hi>> >> \o Singles(hi - 1, lo)

\* the <<msb, lsb>> of the fields fs other than data, in declaration order
RECURSIVE NamedBits(_)
NamedBits(fs) ==
    IF fs = <<>> THEN <<>>
    ELSE (IF Head(fs)[1] = "data" THEN <<>> ELSE << <<Head(fs)[2], Head(fs)[3]>> >>)
         \o NamedBits(Tail(fs))

\* the data field of fs
DataField(fs) == fs[CHOOSE i \in 1..Len(fs) : fs[i][1] = "data"]

\* the number of fields of fs other than data that have one bit
SingleBitFields(fs) == Cardinality({i \in 1..Len(fs) : fs[i][1] # "data" /\ fs[i][2] = fs[i][3]})

\* In the controller word last written: the fields other than data lie
\* where the claim lists them, every bit is in exactly one of them, the
\* written field reads back the value written and every other field other
\* than data reads as before; GCController has singles single-bit fields.
FieldsCover(singles) ==
    write.type # "" =>
        LET fs == ControllerFields(write.type)
            f == fs[write.field]
        IN  /\ write.type = "N64Controller" =>
                   /\ NamedBits(fs) = << <<63, 48>>, <<47, 46>>, <<45, 32>> >> \o Singles(31, 24)
                                          \o << <<23, 22>> >> \o Singles(21, 16)
                                          \o << <<15, 8>>, <<7, 0>> >>
                   /\ FieldBits(DataField(fs)) = 0..31
            /\ write.type = "GCController" =>
                   /\ NamedBits(fs) = << <<63, 62>> >> \o Singles(61, 48)
                                          \o << <<47, 40>>, <<39, 32>>, <<31, 24>>, <<23, 16>>,
                                                 <<15, 8>>, <<7, 0>> >>
                   /\ FieldBits(DataField(fs)) = 0..63
                   /\ SingleBitFields(fs) = singles
            /\ \A b \in WordBits :
                   Cardinality({i \in 1..Len(fs) : fs[i][1] # "data" /\ b \in FieldBits(fs[i])}) = 1
            /\ GetField(write.after, f) = write.value
            /\ \A i \in 1..Len(fs) :
                   (i # write.field /\ fs[i][1] # "data" /\ f[1] # "data") =>
                       GetField(write.after, fs[i]) = GetField(write.before, fs[i])

\* C16 as stated: the named fields of both controller bitfields cover every
\* bit exactly once at the listed positions, GCController with fifteen
\* single-bit fields at bits 61..48.
C16_FifteenSingles == FieldsCover(15)

\* C16 amended: the named fields of both controller bitfields cover every
\* bit exactly once at the listed positions, GCController with fourteen
\* single-bit fields at bits 61..48.
C16_FieldsCover == FieldsCover(14)

\* stick_x of a GCController of all zeros was set to all ones
C16_Witness ==
    /\ write.type = "GCController"
    /\ GCControllerFields[write.field][1] = "stick_x"
    /\ write.before = {}
    /\ write.after = 40..47
====
